---- MODULE Spec2Model ----
(***************************************************************************)
(* Model of the realtime gateway's per-session path:                       *)
(*   pack-server/src/Orchestrator.ts      (the session state machine)      *)
(*   pack-server/src/OpenAIConnection.ts  (the upstream connection)        *)
(*   pack-server/src/core/impls/UsageHandler.ts                            *)
(*   pack-server/src/core/impls/CheckpointHandler.ts                       *)
(* and of the IPC transport of the gateway (ZmqService, ZmqUtils).         *)
(* Every handler is one atomic action (the gateway runs on one cooperative *)
(* event loop); the handlers are written as operators on a record of the   *)
(* whole program state, composed in the order of the code's statements.    *)
(***************************************************************************)
EXTENDS Integers, Sequences, FiniteSets, TLC

VARIABLES
    orch,      \* the Orchestrator's fields
    conns,     \* every OpenAIConnection object constructed so far, in order
    chk,       \* the Orchestrator's CheckpointHandler
    uh,        \* a UsageHandler
    ipc,       \* what has been issued to the account service (fire-and-forget)
    up,        \* the payloads written to upstream sockets, in order
    client,    \* the client stream: upstream frames forwarded to it, and whether it is closed
    server,    \* the accept layer: every upgrade request so far and what became of it
    zmq,       \* the ZmqService: its fields, and every request handed to send() so far
    codec,     \* the codec: the raw frame given to it and what it decoded
    db,        \* the datastore: its tables, the open transaction, the last call's outcome
    hist,      \* history: counters of the inputs consumed so far
    last       \* the handler that ran last: what it was and what it did, in order

vars == <<orch, conns, chk, uh, ipc, up, client, server, zmq, codec, db, hist, last>>

(***************************************************************************)
(* Bounds of the model.                                                    *)
(***************************************************************************)
MaxConns == 2       \* upstream connection objects constructed per behaviour
MaxSends == 2       \* client messages handed to send() per behaviour
MaxCleanups == 2    \* calls of cleanup() per behaviour
MaxFrames == 2      \* upstream frames delivered per behaviour
MaxUsageFrames == 10 \* frames given to the standalone UsageHandler per behaviour
MaxOverflowSends == 2 \* calls of send() beyond the buffer's capacity
MaxPrefill == 3      \* fill levels below capacity the buffer check may start from
MaxRequests == 2     \* requests handed to ZmqService.send() per behaviour
MaxZmqFrames == 2    \* frames the ZmqService receiver gets per behaviour
MaxFireAndForget == 2 \* calls of ZmqService.sendFireAndForget() per behaviour
MaxRawLen == 7        \* pieces (delimiters and delimiter-free texts) of a raw frame given to the codec
MaxBalance == 2       \* largest topup_remaining and token_remaining an account starts with
MaxTokens == 2        \* largest inputTokens and outputTokens of one insertUsage()
MaxUsageCalls == 2    \* calls of insertUsage() per behaviour
MaxClock == 2         \* latest time at which validateAndLoad() is called
MaxStatements == 17   \* statements of one run that succeed before one fails
MaxSockets == 2       \* upgrade requests the server gets per behaviour

(***************************************************************************)
(* Program constants.                                                      *)
(***************************************************************************)
MAX_BUFFER_SIZE == 10000
MAX_RESPONSES_BEFORE_CREDIT_CHECK == 50
USAGE_BATCH_SIZE == 5
UH_USAGE_BATCH_SIZE == 5
CONVERSATION_BUFFER_THRESHOLD == 200

NO_CREDITS == "NO_CREDITS"
BUFFER_OVERFLOW == "BUFFER_OVERFLOW"
NoError == "none"
CLIENT_CLOSED == "Invalid access of closed uWS.WebSocket/SSLWebSocket."

(***************************************************************************)
(* Upstream frames.  The code never parses a frame: it searches the raw    *)
(* string for literals.  A frame is modelled as the sequence of its        *)
(* "key":value members in textual order; a member is                       *)
(*   k   the key,                                                          *)
(*   q   whether the value is a quoted string,                             *)
(*   s   the text of a string value (up to its closing quote),             *)
(*   d   whether the value starts with an ASCII digit run,                 *)
(*   n   the number that digit run denotes.                                *)
(***************************************************************************)
Ty(t) == [k |-> "type", q |-> TRUE, s |-> t, d |-> FALSE, n |-> 0]
Num(key, v) == [k |-> key, q |-> FALSE, s |-> "", d |-> TRUE, n |-> v]
Null(key) == [k |-> key, q |-> FALSE, s |-> "", d |-> FALSE, n |-> 0]
Str(key, v) == [k |-> key, q |-> TRUE, s |-> v, d |-> FALSE, n |-> 0]

T_RESPONSE_DONE == "response.done"
T_SESSION_UPDATED == "session.updated"
T_USER_DELTA == "conversation.item.input_audio_transcription.delta"
T_AGENT_DELTA == "response.output_audio_transcript.delta"

RECURSIVE Rep(_, _)
Rep(s, times) == IF times = 0 THEN "" ELSE s \o Rep(s, times - 1)

ShortUser == "hi"
LongText == Rep("0123456789", 20)

FrameDone(i, o) == <<Ty(T_RESPONSE_DONE), Num("input_tokens", i), Num("output_tokens", o)>>
FrameDoneNoUsage == <<Ty(T_RESPONSE_DONE), Null("usage")>>
FrameDoneNullInput == <<Ty(T_RESPONSE_DONE), Null("input_tokens"), Num("output_tokens", 1)>>
FrameDoneNoOutput == <<Ty(T_RESPONSE_DONE), Num("input_tokens", 1)>>
FrameDoneEnvelope(i, o) == <<Str("event_id", "e1"), Ty(T_RESPONSE_DONE), Num("input_tokens", i), Num("output_tokens", o)>>
FrameSessionUpdated == <<Ty(T_SESSION_UPDATED), Str("session", "s")>>
FrameUserDelta(t) == <<Ty(T_USER_DELTA), Str("delta", t)>>
FrameAgentDelta(t) == <<Ty(T_AGENT_DELTA), Str("delta", t)>>

\* message.startsWith('{"type":"<t>"')
StartsWithType(f, t) == Len(f) >= 1 /\ f[1] = Ty(t)
\* message.indexOf('"type":"<t>"') !== -1
ContainsType(f, t) == \E i \in 1..Len(f) : f[i] = Ty(t)
\* message.indexOf('"<key>":', from): the first member at or after from with that key, 0 for -1
IndexOfKey(f, key, from) ==
    IF \E i \in from..Len(f) : f[i].k = key
    THEN CHOOSE i \in from..Len(f) : f[i].k = key /\ \A j \in from..(i - 1) : f[j].k # key
    ELSE 0

\* message.indexOf('"<key>":"'): the first member with that key and a quoted value
IndexOfQuoted(f, key) ==
    IF \E i \in 1..Len(f) : f[i].k = key /\ f[i].q
    THEN CHOOSE i \in 1..Len(f) :
            /\ f[i].k = key /\ f[i].q
            /\ \A j \in 1..(i - 1) : ~(f[j].k = key /\ f[j].q)
    ELSE 0

NoTokens == [found |-> FALSE, inputTokens |-> 0, outputTokens |-> 0]
\* The token extraction shared by Orchestrator.trackUsage and UsageHandler.saveUsage
\* (after their different tests for the response.done literal).
ExtractTokens(f) ==
    LET inputIdx == IndexOfKey(f, "input_tokens", 1)
    IN  IF inputIdx = 0 THEN NoTokens
        ELSE IF ~f[inputIdx].d THEN NoTokens
        ELSE LET outputIdx == IndexOfKey(f, "output_tokens", inputIdx + 1)
             IN  IF outputIdx = 0 THEN NoTokens
                 ELSE IF ~f[outputIdx].d THEN NoTokens
                 ELSE [found |-> TRUE, inputTokens |-> f[inputIdx].n, outputTokens |-> f[outputIdx].n]

(***************************************************************************)
(* The program state as one record, so that a handler is a function from   *)
(* state to state and a call is an application.  tr is the list of the     *)
(* effects the running handler has performed so far, in program order;     *)
(* err is the error it has thrown (NoError while it has thrown none).      *)
(***************************************************************************)
World == [orch |-> orch, conns |-> conns, chk |-> chk, uh |-> uh, ipc |-> ipc,
          up |-> up, client |-> client, tr |-> <<>>, err |-> NoError]

Emit(w, e) == [w EXCEPT !.tr = Append(@, e)]
Throw(w, e) == [Emit(w, "throw") EXCEPT !.err = e]

(***************************************************************************)
(* OpenAIConnection.  ws is the socket's readyState, "null" while the      *)
(* object holds no socket; handler tells whether the handler reference is  *)
(* attached.  errored: the socket has emitted 'error' (its receiver is     *)
(* detached and it only has its 'close' left to emit).  disconnected and   *)
(* closedAttached are history: disconnect() has been called; the close of  *)
(* the socket was initiated by disconnect() while the handler reference    *)
(* was still attached.                                                     *)
(***************************************************************************)
NewVoiceConnection ==
    [handler |-> FALSE, ws |-> "null", isConnectionEstablished |-> FALSE,
     errored |-> FALSE, disconnected |-> FALSE, closedAttached |-> FALSE]

\* OpenAIConnection.connect(handler): attach the handler and open a socket.
VoiceConnect(w, c) ==
    [Emit(w, "voice.connect") EXCEPT !.conns[c].handler = TRUE, !.conns[c].ws = "CONNECTING"]

\* Mutant of disconnect(): the handler reference is left attached.
VoiceDisconnect_KeepsHandler(w, c) ==
    LET w0 == Emit(w, "disconnect")
        w1 == IF w0.conns[c].ws = "OPEN"
              THEN [Emit(w0, "ws.close") EXCEPT
                        !.conns[c].ws = "CLOSING",
                        !.conns[c].closedAttached = w0.conns[c].handler]
              ELSE w0
    IN  [w1 EXCEPT !.conns[c].disconnected = TRUE]

\* OpenAIConnection.disconnect(): close the socket if it is open, then null the handler.
VoiceDisconnect(w, c) ==
    LET w0 == Emit(w, "disconnect")
        w1 == IF w0.conns[c].ws = "OPEN"
              THEN [Emit(w0, "ws.close") EXCEPT
                        !.conns[c].ws = "CLOSING",
                        !.conns[c].closedAttached = w0.conns[c].handler]
              ELSE w0
    IN  [Emit(w1, "handler=null") EXCEPT
            !.conns[c].handler = FALSE,
            !.conns[c].disconnected = TRUE]

\* OpenAIConnection.isConnected()
VoiceIsConnected(w, c) == w.conns[c].ws = "OPEN"

\* JSON.stringify of a client event; a string passes through unchanged.
Stringify(m) == IF m.t = "string" THEN m ELSE [t |-> "string", v |-> m.v]

\* OpenAIConnection.send(message): written to the socket only while it is open.
VoiceSend(w, c, m) ==
    IF w.conns[c].ws = "OPEN"
    THEN [Emit(w, "upstream.send") EXCEPT !.up = Append(@, [conn |-> c, data |-> Stringify(m)])]
    ELSE Emit(w, "upstream.drop")

(***************************************************************************)
(* Orchestrator.  A client event is an object numbered in the order send() *)
(* received it (v >= 1); the preloaded session travels as the string it    *)
(* is (v = 0).  sessionData is "" (none), SessionJson (well-formed) or     *)
(* SessionBroken (a string JSON.parse rejects).                            *)
(***************************************************************************)
SessionJson == "session.update"
SessionBroken == "not json"
SessionPayload == [t |-> "string", v |-> 0]
ClientEvent(id) == [t |-> "object", v |-> id]

\* new Orchestrator(accountId, sessionId, sessionData, credits, ws, factory)
NewOrchestrator(sessionData, credits) ==
    [sessionData |-> sessionData,
     credits |-> credits,
     voiceConnection |-> 0,
     isVoiceProviderConnected |-> FALSE,
     messageBuffer |-> <<>>,
     responseCount |-> 0,
     creditsCheckInProgress |-> FALSE,
     usageBuffer |-> [inputTokens |-> 0, outputTokens |-> 0],
     usageResponseCount |-> 0,
     skipSessionSave |-> (sessionData # "")]

\* The account service's fire-and-forget lane, as totals of what was issued.
NewIpc ==
    [updateUsage |-> 0, usageInput |-> 0, usageOutput |-> 0,
     saveSession |-> 0,
     appendConversation |-> 0, conversation |-> "", fragments |-> <<>>,
     appendedUnreset |-> FALSE,
     getCredits |-> 0, getCreditsPending |-> 0]

\* accountService.updateUsage(accountId, sessionId, provider, inputTokens, outputTokens)
UpdateUsage(w, i, o) ==
    [Emit(w, "updateUsage") EXCEPT
        !.ipc.updateUsage = @ + 1, !.ipc.usageInput = @ + i, !.ipc.usageOutput = @ + o]

\* Mutant of connect(): the prior connection is not disconnected.
OrchConnect_NoDisconnect(w) ==
    LET c == Len(w.conns) + 1
        w2 == [Emit(w, "new connection") EXCEPT
                  !.conns = Append(@, NewVoiceConnection),
                  !.orch.voiceConnection = c]
    IN  VoiceConnect(w2, c)

\* Orchestrator.connect()
OrchConnect(w) ==
    LET w1 == IF w.orch.voiceConnection # 0
              THEN VoiceDisconnect(w, w.orch.voiceConnection)
              ELSE w
        c == Len(w1.conns) + 1
        w2 == [Emit(w1, "new connection") EXCEPT
                  !.conns = Append(@, NewVoiceConnection),
                  !.orch.voiceConnection = c]
    IN  VoiceConnect(w2, c)

\* Mutant of checkAndScheduleCreditsCheck(): the in-progress test is missing.
CheckAndScheduleCreditsCheck_NoDedup(w) ==
    IF w.orch.responseCount < MAX_RESPONSES_BEFORE_CREDIT_CHECK THEN w
    ELSE [Emit(w, "getCredits") EXCEPT
             !.orch.creditsCheckInProgress = TRUE,
             !.ipc.getCredits = @ + 1, !.ipc.getCreditsPending = @ + 1]

\* Orchestrator.checkAndScheduleCreditsCheck(): launches GET_CREDITS; its
\* completion is a later event, never part of the calling handler.
CheckAndScheduleCreditsCheck(w) ==
    IF w.orch.creditsCheckInProgress THEN w
    ELSE IF w.orch.responseCount < MAX_RESPONSES_BEFORE_CREDIT_CHECK THEN w
    ELSE [Emit(w, "getCredits") EXCEPT
             !.orch.creditsCheckInProgress = TRUE,
             !.ipc.getCredits = @ + 1, !.ipc.getCreditsPending = @ + 1]

\* The then() of the GET_CREDITS promise: the refreshed credits are adopted.
OnCreditsResolved(w, credits) ==
    [Emit(w, "getCredits.then") EXCEPT
        !.ipc.getCreditsPending = @ - 1,
        !.orch.credits = credits,
        !.orch.responseCount = 0,
        !.orch.creditsCheckInProgress = FALSE]

\* The catch() of the GET_CREDITS promise.
\* Mutant of the catch callback: the in-progress flag is left set.
OnCreditsRejected_KeepsFlag(w) ==
    [Emit(w, "getCredits.catch") EXCEPT !.ipc.getCreditsPending = @ - 1]

OnCreditsRejected(w) ==
    [Emit(w, "getCredits.catch") EXCEPT
        !.ipc.getCreditsPending = @ - 1,
        !.orch.creditsCheckInProgress = FALSE]

\* Mutant of send(): the capacity test is off by one (> for >=).
OrchSend_OffByOne(w, m) ==
    IF w.orch.isVoiceProviderConnected /\ w.orch.voiceConnection # 0
    THEN LET w1 == CheckAndScheduleCreditsCheck(w)
         IN  IF w1.orch.credits <= 0
             THEN Throw(VoiceDisconnect(w1, w1.orch.voiceConnection), NO_CREDITS)
             ELSE VoiceSend(w1, w1.orch.voiceConnection, m)
    ELSE IF Len(w.orch.messageBuffer) > MAX_BUFFER_SIZE
         THEN Throw(w, BUFFER_OVERFLOW)
         ELSE [Emit(w, "buffer.push") EXCEPT !.orch.messageBuffer = Append(@, m)]

\* Orchestrator.send(message)
OrchSend(w, m) ==
    IF w.orch.isVoiceProviderConnected /\ w.orch.voiceConnection # 0
    THEN LET w1 == CheckAndScheduleCreditsCheck(w)
         IN  IF w1.orch.credits <= 0
             THEN Throw(VoiceDisconnect(w1, w1.orch.voiceConnection), NO_CREDITS)
             ELSE VoiceSend(w1, w1.orch.voiceConnection, m)
    ELSE IF Len(w.orch.messageBuffer) >= MAX_BUFFER_SIZE
         THEN Throw(w, BUFFER_OVERFLOW)
         ELSE [Emit(w, "buffer.push") EXCEPT !.orch.messageBuffer = Append(@, m)]

\* Mutant of flushBuffer(): pop() for shift(), draining the newest message first.
RECURSIVE FlushBuffer_Lifo(_)
FlushBuffer_Lifo(w) ==
    IF Len(w.orch.messageBuffer) > 0
    THEN LET n == Len(w.orch.messageBuffer)
             message == w.orch.messageBuffer[n]
             w1 == [w EXCEPT !.orch.messageBuffer = SubSeq(@, 1, n - 1)]
         IN  FlushBuffer_Lifo(VoiceSend(w1, w1.orch.voiceConnection, message))
    ELSE w

\* Orchestrator.flushBuffer()
RECURSIVE FlushBuffer(_)
FlushBuffer(w) ==
    IF Len(w.orch.messageBuffer) > 0
    THEN LET message == Head(w.orch.messageBuffer)
             w1 == [w EXCEPT !.orch.messageBuffer = Tail(@)]
         IN  FlushBuffer(VoiceSend(w1, w1.orch.voiceConnection, message))
    ELSE w

\* Mutant of onConnect(): the buffer is flushed before the preloaded session is sent.
OnConnect_FlushFirst(w) ==
    LET w1 == FlushBuffer([Emit(w, "onConnect") EXCEPT !.orch.isVoiceProviderConnected = TRUE])
    IN  IF w1.orch.sessionData # "" /\ w1.orch.sessionData # SessionBroken
        THEN VoiceSend(w1, w1.orch.voiceConnection, SessionPayload)
        ELSE w1

\* Orchestrator.onConnect()
OnConnect(w) ==
    LET w1 == [Emit(w, "onConnect") EXCEPT !.orch.isVoiceProviderConnected = TRUE]
        w2 == IF w1.orch.sessionData # "" /\ w1.orch.sessionData # SessionBroken
              THEN VoiceSend(w1, w1.orch.voiceConnection, SessionPayload)
              ELSE w1
    IN  FlushBuffer(w2)

\* Orchestrator.onError(error)
OnError(w) ==
    [Emit(w, "onError") EXCEPT
        !.orch.isVoiceProviderConnected = FALSE,
        !.orch.skipSessionSave = FALSE]

\* Mutant of onClose(): skipSessionSave is not set again before reconnecting.
OnClose_NoSkip(w) ==
    OrchConnect([Emit(w, "onClose") EXCEPT !.orch.isVoiceProviderConnected = FALSE])

\* Orchestrator.onClose(code, reason)
OnClose(w) ==
    OrchConnect([Emit(w, "onClose") EXCEPT
                    !.orch.isVoiceProviderConnected = FALSE,
                    !.orch.skipSessionSave = TRUE])

\* Mutant of flushUsageBuffer(): the early return on an empty batch is missing.
FlushUsageBuffer_NoGuard(w) ==
    [UpdateUsage(w, w.orch.usageBuffer.inputTokens, w.orch.usageBuffer.outputTokens) EXCEPT
        !.orch.usageBuffer = [inputTokens |-> 0, outputTokens |-> 0],
        !.orch.usageResponseCount = 0]

\* Orchestrator.flushUsageBuffer()
FlushUsageBuffer(w) ==
    IF w.orch.usageResponseCount = 0 THEN w
    ELSE [UpdateUsage(w, w.orch.usageBuffer.inputTokens, w.orch.usageBuffer.outputTokens) EXCEPT
             !.orch.usageBuffer = [inputTokens |-> 0, outputTokens |-> 0],
             !.orch.usageResponseCount = 0]

\* Mutant of trackUsage(): NO_CREDITS is thrown without disconnecting the upstream.
TrackUsage_NoDisconnect(w, f) ==
    IF ~StartsWithType(f, T_RESPONSE_DONE) THEN w
    ELSE LET t == ExtractTokens(f)
         IN  IF ~t.found THEN w
             ELSE LET totalTokens == t.inputTokens + t.outputTokens
                      w1 == [Emit(w, "usage") EXCEPT
                                !.orch.credits = @ - totalTokens,
                                !.orch.responseCount = @ + 1,
                                !.orch.usageBuffer.inputTokens = @ + t.inputTokens,
                                !.orch.usageBuffer.outputTokens = @ + t.outputTokens,
                                !.orch.usageResponseCount = @ + 1]
                      w2 == IF w1.orch.usageResponseCount >= USAGE_BATCH_SIZE
                            THEN FlushUsageBuffer(w1)
                            ELSE w1
                  IN  IF w2.orch.credits <= 0 THEN Throw(w2, NO_CREDITS) ELSE w2

\* Mutant of trackUsage(): the credits are checked before the frame's tokens
\* are put into the usage batch.
TrackUsage_CheckFirst(w, f) ==
    IF ~StartsWithType(f, T_RESPONSE_DONE) THEN w
    ELSE LET t == ExtractTokens(f)
         IN  IF ~t.found THEN w
             ELSE LET totalTokens == t.inputTokens + t.outputTokens
                      w0 == [Emit(w, "usage") EXCEPT
                                !.orch.credits = @ - totalTokens,
                                !.orch.responseCount = @ + 1]
                      w1 == [w0 EXCEPT
                                !.orch.usageBuffer.inputTokens = @ + t.inputTokens,
                                !.orch.usageBuffer.outputTokens = @ + t.outputTokens,
                                !.orch.usageResponseCount = @ + 1]
                      w2 == IF w1.orch.usageResponseCount >= USAGE_BATCH_SIZE
                            THEN FlushUsageBuffer(w1)
                            ELSE w1
                  IN  IF w0.orch.credits <= 0
                      THEN Throw(IF w0.orch.voiceConnection # 0
                                 THEN VoiceDisconnect(w0, w0.orch.voiceConnection)
                                 ELSE w0, NO_CREDITS)
                      ELSE w2

\* Orchestrator.trackUsage(message)
TrackUsage(w, f) ==
    IF ~StartsWithType(f, T_RESPONSE_DONE) THEN w
    ELSE LET t == ExtractTokens(f)
         IN  IF ~t.found THEN w
             ELSE LET totalTokens == t.inputTokens + t.outputTokens
                      w1 == [Emit(w, "usage") EXCEPT
                                !.orch.credits = @ - totalTokens,
                                !.orch.responseCount = @ + 1,
                                !.orch.usageBuffer.inputTokens = @ + t.inputTokens,
                                !.orch.usageBuffer.outputTokens = @ + t.outputTokens,
                                !.orch.usageResponseCount = @ + 1]
                      w2 == IF w1.orch.usageResponseCount >= USAGE_BATCH_SIZE
                            THEN FlushUsageBuffer(w1)
                            ELSE w1
                  IN  IF w2.orch.credits <= 0
                      THEN Throw(IF w2.orch.voiceConnection # 0
                                 THEN VoiceDisconnect(w2, w2.orch.voiceConnection)
                                 ELSE w2, NO_CREDITS)
                      ELSE w2

\* Orchestrator.saveSessionIfNeeded(message)
SaveSessionIfNeeded(w, f) ==
    IF ~StartsWithType(f, T_SESSION_UPDATED) THEN w
    ELSE IF w.orch.skipSessionSave
         THEN [Emit(w, "skipSessionSave") EXCEPT !.orch.skipSessionSave = FALSE]
         ELSE [Emit(w, "saveSession") EXCEPT !.ipc.saveSession = @ + 1]

(***************************************************************************)
(* CheckpointHandler.  currentConvType is "user", "agent" or "null".       *)
(***************************************************************************)
NewCheckpointHandler ==
    [conversationBuffer |-> <<>>, conversationBufferLength |-> 0, currentConvType |-> "null"]

RECURSIVE Join(_)
\* Array.prototype.join('')
Join(fragments) == IF fragments = <<>> THEN "" ELSE Head(fragments) \o Join(Tail(fragments))

\* accountService.appendConversation(accountId, sessionId, content): fire-and-forget.
\* conversation is what the datastore's concatenating upsert accumulates;
\* appendedUnreset records whether the handler still held fragments, a
\* length or a speaker at the moment an append was issued; fragments are the
\* fragments the appended contents were joined from, in order.
AppendConversation(w, content) ==
    [Emit(w, "appendConversation") EXCEPT
        !.ipc.appendConversation = @ + 1,
        !.ipc.conversation = @ \o content,
        !.ipc.appendedUnreset = @ \/ w.chk # NewCheckpointHandler]

\* Mutant of flush(): the append is issued before the state is reset.
CheckpointFlush_SendFirst(w) ==
    IF Len(w.chk.conversationBuffer) = 0 THEN w
    ELSE LET content == Join(w.chk.conversationBuffer)
             w1 == AppendConversation(w, content)
         IN  [Emit(w1, "checkpoint.reset") EXCEPT
                 !.ipc.fragments = @ \o w.chk.conversationBuffer,
                 !.chk.currentConvType = "null",
                 !.chk.conversationBuffer = <<>>,
                 !.chk.conversationBufferLength = 0]

\* CheckpointHandler.flush()
CheckpointFlush(w) ==
    IF Len(w.chk.conversationBuffer) = 0 THEN w
    ELSE LET content == Join(w.chk.conversationBuffer)
             w1 == [Emit(w, "checkpoint.reset") EXCEPT
                       !.chk.currentConvType = "null",
                       !.chk.conversationBuffer = <<>>,
                       !.chk.conversationBufferLength = 0]
         IN  [AppendConversation(w1, content) EXCEPT
                 !.ipc.fragments = @ \o w.chk.conversationBuffer]

\* The "delta":"..." value of a frame, "" when the code finds none.
DeltaOf(f) == IF IndexOfQuoted(f, "delta") = 0 THEN "" ELSE f[IndexOfQuoted(f, "delta")].s

\* CheckpointHandler.trackConversation(message)
TrackConversation(w, f) ==
    LET isUser == ContainsType(f, T_USER_DELTA)
        isAgent == ContainsType(f, T_AGENT_DELTA)
        type == IF isAgent THEN "agent" ELSE IF isUser THEN "user" ELSE "null"
        delta == IF isUser \/ isAgent THEN DeltaOf(f) ELSE ""
    IN  IF type = "null" \/ delta = "" THEN w
        ELSE LET w1 == IF w.chk.currentConvType # type
                       THEN LET prefix == IF Len(w.chk.conversationBuffer) > 0 THEN "\n" ELSE ""
                            IN  [w EXCEPT
                                    !.chk.conversationBuffer = Append(@, prefix \o type \o ":" \o delta),
                                    !.chk.currentConvType = type]
                       ELSE [w EXCEPT !.chk.conversationBuffer = Append(@, delta)]
                 w2 == [Emit(w1, "checkpoint.push") EXCEPT
                           !.chk.conversationBufferLength = @ + Len(delta)]
             IN  IF w2.chk.conversationBufferLength >= CONVERSATION_BUFFER_THRESHOLD
                 THEN CheckpointFlush(w2)
                 ELSE w2

\* Orchestrator.onMsgReceived(message)
OnMsgReceived(w, f) ==
    IF w.client.closed THEN Throw(Emit(w, "client.send"), CLIENT_CLOSED)
    ELSE LET w1 == [Emit(w, "client.send") EXCEPT !.client.sent = @ + 1]
             w2 == TrackUsage(w1, f)
         IN  IF w2.err # NoError THEN w2
             ELSE TrackConversation(SaveSessionIfNeeded(w2, f), f)

\* Orchestrator.cleanup()
Cleanup(w) ==
    LET w1 == FlushUsageBuffer(Emit(w, "usage.flush"))
        w2 == CheckpointFlush(Emit(w1, "checkpoint.flush"))
        w3 == IF w2.orch.voiceConnection # 0 /\ VoiceIsConnected(w2, w2.orch.voiceConnection)
              THEN VoiceDisconnect(w2, w2.orch.voiceConnection)
              ELSE w2
    IN  [Emit(w3, "buffer.clear") EXCEPT !.orch.messageBuffer = <<>>]

\* The client stream (uWS.WebSocket): a send() on a closed stream throws.
NewClient == [sent |-> 0, closed |-> FALSE]

(***************************************************************************)
(* UsageHandler.                                                           *)
(***************************************************************************)
NewUsageHandler == [inputTokens |-> 0, outputTokens |-> 0, currentBatchSize |-> 0]

\* UsageHandler.flush()
UsageFlush(w) ==
    IF w.uh.currentBatchSize = 0 THEN w
    ELSE [UpdateUsage(w, w.uh.inputTokens, w.uh.outputTokens) EXCEPT !.uh = NewUsageHandler]

\* Mutant of saveUsage(): the batch is flushed one frame late (> for >=).
SaveUsage_LateFlush(w, f) ==
    IF ~ContainsType(f, T_RESPONSE_DONE) THEN w
    ELSE LET t == ExtractTokens(f)
         IN  IF ~t.found THEN w
             ELSE LET w1 == [Emit(w, "usage") EXCEPT
                                !.uh.inputTokens = @ + t.inputTokens,
                                !.uh.outputTokens = @ + t.outputTokens,
                                !.uh.currentBatchSize = @ + 1]
                  IN  IF w1.uh.currentBatchSize > UH_USAGE_BATCH_SIZE
                      THEN UsageFlush(w1)
                      ELSE w1

\* UsageHandler.saveUsage(message)
SaveUsage(w, f) ==
    IF ~ContainsType(f, T_RESPONSE_DONE) THEN w
    ELSE LET t == ExtractTokens(f)
         IN  IF ~t.found THEN w
             ELSE LET w1 == [Emit(w, "usage") EXCEPT
                                !.uh.inputTokens = @ + t.inputTokens,
                                !.uh.outputTokens = @ + t.outputTokens,
                                !.uh.currentBatchSize = @ + 1]
                  IN  IF w1.uh.currentBatchSize >= UH_USAGE_BATCH_SIZE
                      THEN UsageFlush(w1)
                      ELSE w1

(***************************************************************************)
(* ZmqService.  A request is identified by the correlation id its caller   *)
(* passed (the callers draw it with randomUUID(), so the n-th request has  *)
(* an id of its own, here n).  requests[n] is the n-th call of send(): its *)
(* id and type, its timer ("armed", "cleared", "fired", "none" if none was *)
(* set), its promise ("pending", "resolved", "rejected") with the value or *)
(* error it settled with, and whether dealer.send() is still unsettled.    *)
(* pendingRequests maps an id to the request whose record it holds.  A     *)
(* raw frame is the sequence of its '|'-separated parts.                   *)
(***************************************************************************)
INTERNAL_ZMQ_NOT_CONNECTED == "INTERNAL_ZMQ_NOT_CONNECTED"
INTERNAL_ZMQ_REQUEST_TIMEOUT == "INTERNAL_ZMQ_REQUEST_TIMEOUT"
INTERNAL_ZMQ_DESTROYED == "INTERNAL_ZMQ_DESTROYED"
SEND_ERROR == "dealer.send error"
VALIDATE_AND_LOAD == "VALIDATE_AND_LOAD"
GET_CREDITS == "GET_CREDITS"
RequestTypes == {VALIDATE_AND_LOAD, GET_CREDITS}

\* ZMQ_RESPONSE_SCHEMA[type].length
ResponseSchemaLength(type) == IF type = VALIDATE_AND_LOAD THEN 3 ELSE 1

NoResponse == [ok |-> FALSE, id |-> 0, error |-> "", fields |-> <<>>]

\* ZmqUtils.decodeResponse(raw, type)
DecodeResponse(parts, type) ==
    IF Len(parts) < 2 THEN NoResponse
    ELSE IF Len(parts) - 2 # ResponseSchemaLength(type) THEN NoResponse
    ELSE [ok |-> TRUE, id |-> parts[1], error |-> parts[2], fields |-> SubSeq(parts, 3, Len(parts))]

NewZmq ==
    [connected |-> FALSE, closed |-> FALSE,
     pendingRequests |-> << >>,
     requests |-> << >>,
     received |-> 0,
     fireAndForget |-> << >>,
     thrown |-> NoError]

\* Map.delete(id)
MapDelete(m, id) == [k \in DOMAIN m \ {id} |-> m[k]]
\* Map.set(id, n)
MapSet(m, id, n) == [k \in DOMAIN m \cup {id} |-> IF k = id THEN n ELSE m[k]]

\* clearTimeout(timer) of request n: an armed timer is cancelled.
ClearTimeout(z, n) ==
    IF z.requests[n].timer = "armed" THEN [z EXCEPT !.requests[n].timer = "cleared"] ELSE z

\* reject(error) of request n's promise: a settled promise stays as it is.
Reject(z, n, error) ==
    IF z.requests[n].promise = "pending"
    THEN [z EXCEPT !.requests[n].promise = "rejected", !.requests[n].error = error]
    ELSE z

\* resolve(response) of request n's promise.
Resolve(z, n, response) ==
    IF z.requests[n].promise = "pending"
    THEN [z EXCEPT !.requests[n].promise = "resolved", !.requests[n].value = response]
    ELSE z

\* ZmqService.connect()
ZmqConnectCall(z) == IF z.connected THEN z ELSE [z EXCEPT !.connected = TRUE]

\* Mutant of send(): no timer is set for the request.
ZmqSendCall_NoTimer(z, id, type) ==
    LET n == Len(z.requests) + 1
        r == [id |-> id, type |-> type, timer |-> "none", promise |-> "pending",
              value |-> NoResponse, error |-> "", sending |-> FALSE]
    IN  IF ~z.connected
        THEN [z EXCEPT !.requests = Append(@, [r EXCEPT !.promise = "rejected",
                                                          !.error = INTERNAL_ZMQ_NOT_CONNECTED])]
        ELSE [z EXCEPT !.requests = Append(@, [r EXCEPT !.sending = TRUE]),
                       !.pendingRequests = MapSet(@, id, n)]

\* ZmqService.send(id, type, ...args)
ZmqSendCall(z, id, type) ==
    LET n == Len(z.requests) + 1
        r == [id |-> id, type |-> type, timer |-> "none", promise |-> "pending",
              value |-> NoResponse, error |-> "", sending |-> FALSE]
    IN  IF ~z.connected
        THEN [z EXCEPT !.requests = Append(@, [r EXCEPT !.promise = "rejected",
                                                          !.error = INTERNAL_ZMQ_NOT_CONNECTED])]
        ELSE [z EXCEPT !.requests = Append(@, [r EXCEPT !.timer = "armed", !.sending = TRUE]),
                       !.pendingRequests = MapSet(@, id, n)]

\* Mutant of the setTimeout callback: the pending record is left in the table.
OnTimeout_KeepsRecord(z, n) ==
    Reject([z EXCEPT !.requests[n].timer = "fired"], n, INTERNAL_ZMQ_REQUEST_TIMEOUT)

\* The setTimeout callback of request n.
OnTimeout(z, n) ==
    LET z1 == [z EXCEPT !.requests[n].timer = "fired",
                        !.pendingRequests = MapDelete(@, z.requests[n].id)]
    IN  Reject(z1, n, INTERNAL_ZMQ_REQUEST_TIMEOUT)

\* The catch() of dealer.send() of request n.
OnSendError(z, n) ==
    LET z1 == ClearTimeout([z EXCEPT !.requests[n].sending = FALSE], n)
        z2 == [z1 EXCEPT !.pendingRequests = MapDelete(@, z.requests[n].id)]
    IN  Reject(z2, n, SEND_ERROR)

\* Mutant of destroy(): the timers of the pending records are not cleared.
ZmqDestroyCall_KeepsTimers(z) ==
    LET RECURSIVE RejectAll(_, _)
        RejectAll(zz, ids) ==
            IF ids = {} THEN zz
            ELSE LET id == CHOOSE i \in ids : TRUE
                 IN  RejectAll(Reject(zz, zz.pendingRequests[id], INTERNAL_ZMQ_DESTROYED), ids \ {id})
        z1 == [RejectAll(z, DOMAIN z.pendingRequests) EXCEPT !.pendingRequests = << >>]
    IN  IF z1.connected THEN [z1 EXCEPT !.connected = FALSE, !.closed = TRUE] ELSE z1

\* ZmqService.destroy()
ZmqDestroyCall(z) ==
    LET RECURSIVE RejectAll(_, _)
        RejectAll(zz, ids) ==
            IF ids = {} THEN zz
            ELSE LET id == CHOOSE i \in ids : TRUE
                     n == zz.pendingRequests[id]
                 IN  RejectAll(Reject(ClearTimeout(zz, n), n, INTERNAL_ZMQ_DESTROYED), ids \ {id})
        z1 == [RejectAll(z, DOMAIN z.pendingRequests) EXCEPT !.pendingRequests = << >>]
    IN  IF z1.connected THEN [z1 EXCEPT !.connected = FALSE, !.closed = TRUE] ELSE z1

\* Mutant of the receiver: the record is resolved and removed, its timer left armed.
OnFrame_KeepsTimer(z, parts) ==
    IF Len(parts) < 2 THEN z
    ELSE LET id == parts[1]
         IN  IF id \notin DOMAIN z.pendingRequests THEN z
             ELSE LET n == z.pendingRequests[id]
                      response == DecodeResponse(parts, z.requests[n].type)
                  IN  IF ~response.ok THEN z
                      ELSE Resolve([z EXCEPT !.pendingRequests = MapDelete(@, id)], n, response)

\* Mutant of the receiver: the frame goes to the oldest pending record.
OnFrame_OldestPending(z, parts) ==
    IF Len(parts) < 2 THEN z
    ELSE IF DOMAIN z.pendingRequests = {} THEN z
    ELSE LET id == CHOOSE i \in DOMAIN z.pendingRequests :
                       \A j \in DOMAIN z.pendingRequests : i <= j
             n == z.pendingRequests[id]
             response == DecodeResponse(parts, z.requests[n].type)
         IN  IF ~response.ok THEN z
             ELSE Resolve(ClearTimeout([z EXCEPT !.pendingRequests = MapDelete(@, id)], n),
                          n, response)

\* One iteration of the loop of ZmqService.startReceiver() on the frame parts.
OnFrame(z, parts) ==
    IF Len(parts) < 2 THEN z
    ELSE LET id == parts[1]
         IN  IF id \notin DOMAIN z.pendingRequests THEN z
             ELSE LET n == z.pendingRequests[id]
                      response == DecodeResponse(parts, z.requests[n].type)
                  IN  IF ~response.ok THEN z
                      ELSE Resolve(ClearTimeout([z EXCEPT !.pendingRequests = MapDelete(@, id)], n),
                                   n, response)

(***************************************************************************)
(* The codec (ZmqUtils) on raw strings.  A string is the sequence of its   *)
(* pieces: a piece is the delimiter or a text without delimiter, so that   *)
(* concatenation is \o and split() cuts at every delimiter.  A decoded     *)
(* result is [ok, id, type, error, args]; ok = FALSE stands for null.      *)
(***************************************************************************)
ZMQ_DELIMITER == "|"
NaN == "NaN"
Digit == "7"

\* ZMQ_REQUEST_SCHEMA[type]: the types of the arguments, in order.
ZMQ_REQUEST_SCHEMA(type) ==
    IF type = <<"VALIDATE_AND_LOAD">> THEN <<"string", "string">>
    ELSE IF type = <<"UPDATE_USAGE">> THEN <<"string", "string", "string", "number", "number">>
    ELSE IF type = <<"GET_CREDITS">> THEN <<"string">>
    ELSE <<"undefined">>

\* ZMQ_RESPONSE_SCHEMA[type]: the types of the fields, in order.
ZMQ_RESPONSE_SCHEMA(type) ==
    IF type = "VALIDATE_AND_LOAD" THEN <<"string", "string", "number">>
    ELSE IF type = "GET_CREDITS" THEN <<"number">>
    ELSE <<"undefined">>

HasSchema(schema) == schema # <<"undefined">>

\* raw.split(ZMQ_DELIMITER)
RECURSIVE Split(_)
Split(raw) ==
    IF \A i \in 1..Len(raw) : raw[i] # ZMQ_DELIMITER THEN <<raw>>
    ELSE LET i == CHOOSE j \in 1..Len(raw) :
                      raw[j] = ZMQ_DELIMITER /\ \A k \in 1..(j - 1) : raw[k] # ZMQ_DELIMITER
         IN  <<SubSeq(raw, 1, i - 1)>> \o Split(SubSeq(raw, i + 1, Len(raw)))

\* parseInt(val, 10): the number written by the leading digits, NaN if none.
RECURSIVE ParseDigits(_, _)
ParseDigits(val, n) ==
    IF val = <<>> \/ val[1] # Digit THEN n ELSE ParseDigits(Tail(val), 10 * n + 7)

ParseInt(val) == IF val = <<>> \/ val[1] # Digit THEN NaN ELSE ParseDigits(val, 0)

NoDecoded == [ok |-> FALSE, id |-> <<>>, type |-> <<>>, error |-> <<>>, args |-> <<>>]

\* Mutant of decodeRequest(): only a frame with too many arguments is rejected.
ZmqUtils_decodeRequest_AtMost(raw) ==
    LET parts == Split(raw)
    IN  IF Len(parts) < 2 THEN NoDecoded
        ELSE LET id == parts[1]
                 type == parts[2]
                 argStrings == SubSeq(parts, 3, Len(parts))
                 schema == ZMQ_REQUEST_SCHEMA(type)
             IN  IF ~HasSchema(schema) THEN NoDecoded
                 ELSE IF Len(argStrings) > Len(schema) THEN NoDecoded
                 ELSE [ok |-> TRUE, id |-> id, type |-> type, error |-> <<>>,
                       args |-> [i \in 1..Len(schema) |->
                                   IF i > Len(argStrings) THEN "undefined"
                                   ELSE IF schema[i] = "number" THEN ParseInt(argStrings[i])
                                   ELSE argStrings[i]]]

\* ZmqUtils.decodeRequest(raw)
ZmqUtils_decodeRequest(raw) ==
    LET parts == Split(raw)
    IN  IF Len(parts) < 2 THEN NoDecoded
        ELSE LET id == parts[1]
                 type == parts[2]
                 argStrings == SubSeq(parts, 3, Len(parts))
                 schema == ZMQ_REQUEST_SCHEMA(type)
             IN  IF ~HasSchema(schema) THEN NoDecoded
                 ELSE IF Len(argStrings) # Len(schema) THEN NoDecoded
                 ELSE [ok |-> TRUE, id |-> id, type |-> type, error |-> <<>>,
                       args |-> [i \in 1..Len(schema) |->
                                   IF schema[i] = "number" THEN ParseInt(argStrings[i])
                                   ELSE argStrings[i]]]

\* ZmqUtils.decodeResponse(raw, type)
ZmqUtils_decodeResponse(raw, type) ==
    LET parts == Split(raw)
    IN  IF Len(parts) < 2 THEN NoDecoded
        ELSE LET id == parts[1]
                 error == parts[2]
                 fieldStrings == SubSeq(parts, 3, Len(parts))
                 schema == ZMQ_RESPONSE_SCHEMA(type)
             IN  IF ~HasSchema(schema) THEN NoDecoded
                 ELSE IF Len(fieldStrings) # Len(schema) THEN NoDecoded
                 ELSE [ok |-> TRUE, id |-> id, type |-> <<type>>, error |-> error,
                       args |-> [i \in 1..Len(schema) |->
                                   IF schema[i] = "number"
                                   THEN (IF fieldStrings[i] # <<>> THEN ParseInt(fieldStrings[i]) ELSE 0)
                                   ELSE fieldStrings[i]]]

NewCodec == [op |-> "none", raw |-> <<>>, type |-> "", result |-> NoDecoded]

(***************************************************************************)
(* Fire-and-forget sends.  fireAndForget[k] is the k-th call of            *)
(* sendFireAndForget(): its id and type, what became of the message        *)
(* ("dropped" before dealer.send(), "sending", "sent", "failed") and       *)
(* whether Logger.error was called for it.  thrown is the error the last   *)
(* call raised into its caller.                                            *)
(***************************************************************************)
UPDATE_USAGE == "UPDATE_USAGE"
SAVE_SESSION == "SAVE_SESSION"
APPEND_CONVERSATION == "APPEND_CONVERSATION"
FireAndForgetTypes == {UPDATE_USAGE, SAVE_SESSION, APPEND_CONVERSATION}

\* Mutant of sendFireAndForget(): written like send(), it rejects when not
\* connected and registers a pending record otherwise.
SendFireAndForget_LikeSend(z, id, type) ==
    LET m == [id |-> id, type |-> type, state |-> "sending", logged |-> FALSE]
    IN  IF ~z.connected
        THEN [z EXCEPT !.fireAndForget = Append(@, [m EXCEPT !.state = "dropped"]),
                       !.thrown = INTERNAL_ZMQ_NOT_CONNECTED]
        ELSE [z EXCEPT !.fireAndForget = Append(@, m),
                       !.pendingRequests = MapSet(@, id, 0),
                       !.thrown = NoError]

\* ZmqService.sendFireAndForget(id, type, ...args)
SendFireAndForget(z, id, type) ==
    LET m == [id |-> id, type |-> type, state |-> "sending", logged |-> FALSE]
    IN  IF ~z.connected
        THEN [z EXCEPT !.fireAndForget = Append(@, [m EXCEPT !.state = "dropped", !.logged = TRUE]),
                       !.thrown = NoError]
        ELSE [z EXCEPT !.fireAndForget = Append(@, m), !.thrown = NoError]

\* The catch() of dealer.send() of the k-th fire-and-forget message.
OnFireAndForgetSendError(z, k) ==
    [z EXCEPT !.fireAndForget[k].state = "failed", !.fireAndForget[k].logged = TRUE,
              !.thrown = NoError]

(***************************************************************************)
(* The datastore (pack-db).  accounts maps the id of each account row to   *)
(* its balances, usage_metrics is the sequence of usage rows, api_keys     *)
(* maps a key hash to its row and sessions is the set of session rows.     *)
(* These four are the committed tables.  trx is the transaction of the     *)
(* insertUsage() in progress: the call, the statement it is at (pc), the   *)
(* balances it computed and the tables as its connection sees them.  The   *)
(* database has one connection, which a transaction holds from BEGIN to    *)
(* COMMIT or ROLLBACK; mode "db" stands for statements that are sent       *)
(* outside a transaction and commit one by one.  result is the outcome of  *)
(* the last call, observed what the last concurrent reader saw; initial    *)
(* and spent are history: the balances at the start and, per account, the  *)
(* tokens of the calls that succeeded.                                     *)
(***************************************************************************)
NULL == "null"
AccountId == "acc"
UnknownAccountId == "nobody"

\* Lines 161-181 of insertUsage(): the cascading deduction.
\* Mutant: the remainder that the top-up did not cover is dropped.
Cascade_DropsRemainder(topup_remaining, token_remaining, totalTokens) ==
    IF topup_remaining > 0 /\ topup_remaining >= totalTokens
    THEN [topup_remaining |-> topup_remaining - totalTokens, token_remaining |-> token_remaining]
    ELSE IF topup_remaining > 0
    THEN [topup_remaining |-> 0, token_remaining |-> token_remaining]
    ELSE [topup_remaining |-> topup_remaining, token_remaining |-> token_remaining - totalTokens]

\* Mutant: the subscription balance is drained before the top-up.
Cascade_TokenFirst(topup_remaining, token_remaining, totalTokens) ==
    IF token_remaining >= totalTokens
    THEN [topup_remaining |-> topup_remaining, token_remaining |-> token_remaining - totalTokens]
    ELSE [topup_remaining |-> topup_remaining - (totalTokens - token_remaining), token_remaining |-> 0]

Cascade(topup_remaining, token_remaining, totalTokens) ==
    LET afterTopup ==
            IF topup_remaining > 0
            THEN IF topup_remaining >= totalTokens
                 THEN [topupRemaining |-> topup_remaining - totalTokens, remainingUsage |-> 0]
                 ELSE [topupRemaining |-> 0, remainingUsage |-> totalTokens - topup_remaining]
            ELSE [topupRemaining |-> topup_remaining, remainingUsage |-> totalTokens]
    IN  [topup_remaining |-> afterTopup.topupRemaining,
         token_remaining |-> IF afterTopup.remainingUsage > 0
                             THEN token_remaining - afterTopup.remainingUsage
                             ELSE token_remaining]

(***************************************************************************)
(* Schema migrations (pack-db Migrator, PreconditionHelpers and the        *)
(* migration scripts).  The schema is the set of tables and the set of     *)
(* indexes of the database file; fault is the number of statements the     *)
(* connection still executes until one fails (0: none fails).  A statement *)
(* returns the database after it, whether it threw, and what it read.      *)
(***************************************************************************)
EXECUTED == "executed"
SKIPPED == "skipped"
FAILED == "failed"

\* The migration scripts in the order of getMigrationFiles(): the names that
\* pass the pattern, sorted.  The name of the sessions script is not part of
\* the sources; no other script depends on its place.
MigrationFiles ==
    << "2025-01-01T001-CreateAccountsTable.ts",
       "2025-01-02T001-CreateApiKeysTable.ts",
       "2025-01-03T001-CreateSessionsTable.ts",
       "2025-01-03T002-CreateUsageMetricsTable.ts" >>

TableNames == {"accounts", "api_keys", "sessions", "usage_metrics"}

\* The indexes each script creates, in the order of its statements.
IndexesOn(table) ==
    CASE table = "accounts" -> << "accounts_email_index", "accounts_status_index" >>
      [] table = "api_keys" -> << "api_keys_account_id_index" >>
      [] table = "sessions" -> << "sessions_created_index" >>
      [] table = "usage_metrics" -> << "idx_usage_account", "idx_usage_provider",
                                       "idx_usage_created", "idx_usage_account_time" >>

Range(seq) == {seq[i] : i \in DOMAIN seq}

MigratedSchema ==
    [tables |-> TableNames,
     indexes |-> UNION {Range(IndexesOn(t)) : t \in TableNames},
     fault |-> 0]

\* Every statement sent on the connection: it fails when the fault is due.
StatementFails(s) == s.fault = 1
AfterStatement(s) == [s EXCEPT !.fault = IF @ > 0 THEN @ - 1 ELSE 0]

\* PreconditionHelpers.tableExists(): a SELECT on sqlite_master.
TableExists(s, tableName) ==
    [db |-> AfterStatement(s), thrown |-> StatementFails(s), value |-> tableName \in s.tables]

\* CREATE TABLE: fails when the name is taken.
CreateTable(s, tableName) ==
    IF StatementFails(s) \/ tableName \in s.tables
    THEN [db |-> AfterStatement(s), thrown |-> TRUE]
    ELSE [db |-> [AfterStatement(s) EXCEPT !.tables = @ \cup {tableName}], thrown |-> FALSE]

\* CREATE INDEX: fails when the name is taken or the table is missing.
CreateIndex(s, indexName, tableName) ==
    IF StatementFails(s) \/ indexName \in s.indexes \/ tableName \notin s.tables
    THEN [db |-> AfterStatement(s), thrown |-> TRUE]
    ELSE [db |-> [AfterStatement(s) EXCEPT !.indexes = @ \cup {indexName}], thrown |-> FALSE]

\* DROP TABLE IF EXISTS: the table goes, and its indexes with it.
DropTableIfExists(s, tableName) ==
    IF StatementFails(s)
    THEN [db |-> AfterStatement(s), thrown |-> TRUE]
    ELSE [db |-> [AfterStatement(s) EXCEPT !.tables = @ \ {tableName},
                                           !.indexes = @ \ Range(IndexesOn(tableName))],
          thrown |-> FALSE]

\* The createIndex statements of a script, awaited one after the other; the
\* first that throws ends the script.
RECURSIVE CreateIndexes(_, _, _)
CreateIndexes(s, tableName, indexNames) ==
    IF indexNames = << >> THEN [db |-> s, thrown |-> FALSE]
    ELSE LET r == CreateIndex(s, Head(indexNames), tableName)
         IN  IF r.thrown THEN r ELSE CreateIndexes(r.db, tableName, Tail(indexNames))

\* What up() settles with: a status it returns, or a throw.
Returned(s, status) == [db |-> s, thrown |-> FALSE, status |-> status]
Thrown(s) == [db |-> s, thrown |-> TRUE, status |-> ""]

\* The body every script shares after its preconditions: the table, then its
\* indexes, then "executed".
CreateTableWithIndexes(s, tableName) ==
    LET t == CreateTable(s, tableName)
    IN  IF t.thrown THEN Thrown(t.db)
        ELSE LET i == CreateIndexes(t.db, tableName, IndexesOn(tableName))
             IN  IF i.thrown THEN Thrown(i.db) ELSE Returned(i.db, EXECUTED)

\* up() of CreateAccountsTable.
CreateAccountsTable_up(s) ==
    LET exists == TableExists(s, "accounts")
    IN  IF exists.thrown THEN Thrown(exists.db)
        ELSE IF exists.value THEN Returned(exists.db, SKIPPED)
        ELSE CreateTableWithIndexes(exists.db, "accounts")

\* Mutant of up() of CreateApiKeysTable: the createTable builder is never
\* executed.
CreateApiKeysTable_up_NotExecuted(s) ==
    LET exists == TableExists(s, "api_keys")
    IN  IF exists.thrown THEN Thrown(exists.db)
        ELSE IF exists.value THEN Returned(exists.db, SKIPPED)
        ELSE LET accounts == TableExists(exists.db, "accounts")
             IN  IF accounts.thrown THEN Thrown(accounts.db)
                 ELSE IF ~accounts.value THEN Thrown(accounts.db)
                 ELSE Returned(accounts.db, EXECUTED)

\* up() of CreateApiKeysTable: it halts when the accounts table is missing.
CreateApiKeysTable_up(s) ==
    LET exists == TableExists(s, "api_keys")
    IN  IF exists.thrown THEN Thrown(exists.db)
        ELSE IF exists.value THEN Returned(exists.db, SKIPPED)
        ELSE LET accounts == TableExists(exists.db, "accounts")
             IN  IF accounts.thrown THEN Thrown(accounts.db)
                 ELSE IF ~accounts.value THEN Thrown(accounts.db)
                 ELSE CreateTableWithIndexes(accounts.db, "api_keys")

\* up() of CreateSessionsTable.
CreateSessionsTable_up(s) ==
    LET exists == TableExists(s, "sessions")
    IN  IF exists.thrown THEN Thrown(exists.db)
        ELSE IF exists.value THEN Returned(exists.db, SKIPPED)
        ELSE CreateTableWithIndexes(exists.db, "sessions")

\* up() of CreateUsageMetricsTable.
CreateUsageMetricsTable_up(s) ==
    LET exists == TableExists(s, "usage_metrics")
    IN  IF exists.thrown THEN Thrown(exists.db)
        ELSE IF exists.value THEN Returned(exists.db, SKIPPED)
        ELSE CreateTableWithIndexes(exists.db, "usage_metrics")

\* import(filePath): the module of a migration file.
MigrationUp(fileName, s) ==
    CASE fileName = MigrationFiles[1] -> CreateAccountsTable_up(s)
      [] fileName = MigrationFiles[2] -> CreateApiKeysTable_up(s)
      [] fileName = MigrationFiles[3] -> CreateSessionsTable_up(s)
      [] fileName = MigrationFiles[4] -> CreateUsageMetricsTable_up(s)

\* The table a script's down() drops.
MigrationTable(fileName) ==
    CASE fileName = MigrationFiles[1] -> "accounts"
      [] fileName = MigrationFiles[2] -> "api_keys"
      [] fileName = MigrationFiles[3] -> "sessions"
      [] fileName = MigrationFiles[4] -> "usage_metrics"

\* Migrator.runMigration(): whatever up() throws becomes the status "failed".
RunMigration(s, fileName) ==
    LET r == MigrationUp(fileName, s)
    IN  [db |-> r.db,
         result |-> [name |-> fileName, status |-> IF r.thrown THEN FAILED ELSE r.status]]

\* Migrator.rollback().
Rollback(s, fileName) ==
    LET r == DropTableIfExists(s, MigrationTable(fileName))
    IN  [db |-> r.db,
         result |-> [name |-> fileName, status |-> IF r.thrown THEN FAILED ELSE EXECUTED]]

\* Migrator.runAll(): the files in order, stopping after the first "failed".
RECURSIVE RunFiles(_, _, _)
RunFiles(s, files, results) ==
    IF files = << >> THEN [db |-> s, results |-> results]
    ELSE LET r == RunMigration(s, Head(files))
         IN  IF r.result.status = FAILED
             THEN [db |-> r.db, results |-> Append(results, r.result)]
             ELSE RunFiles(r.db, Tail(files), Append(results, r.result))

RunAll(s) == RunFiles(s, MigrationFiles, << >>)

Tables(d) == [accounts |-> d.accounts, usage_metrics |-> d.usage_metrics]

NoTrx ==
    [open |-> FALSE, mode |-> "", pc |-> "", accountId |-> "", inputTokens |-> 0, outputTokens |-> 0,
     topupRemaining |-> 0, tokenRemaining |-> 0,
     tables |-> [accounts |-> << >>, usage_metrics |-> << >>],
     before |-> [accounts |-> << >>, usage_metrics |-> << >>]]

NoResult == [op |-> "none", settled |-> "none", value |-> << >>]

NewDb ==
    [accounts |-> [a \in {AccountId} |-> [topup_remaining |-> 0, token_remaining |-> 0]],
     usage_metrics |-> << >>,
     api_keys |-> << >>,
     sessions |-> {},
     trx |-> NoTrx,
     result |-> NoResult,
     observed |-> [accounts |-> << >>, usage_metrics |-> << >>],
     initial |-> << >>,
     spent |-> [a \in {AccountId} |-> 0],
     calls |-> 0,
     schema |-> MigratedSchema,
     migrations |-> [previous |-> << >>, latest |-> << >>],
     summaries |-> << >>,
     summarized |-> << >>,
     appends |-> 0]

\* What a statement sent on the connection now would read.
Visible(d) == IF d.trx.open /\ d.trx.mode = "trx" THEN d.trx.tables ELSE Tables(d)

\* A statement of the call in progress writes the tables t: inside a transaction
\* the write stays with the connection until COMMIT, outside it is committed.
Write(d, t) ==
    IF d.trx.mode = "trx" THEN [d EXCEPT !.trx.tables = t]
    ELSE [d EXCEPT !.accounts = t.accounts, !.usage_metrics = t.usage_metrics, !.trx.tables = t]

\* The callback of the call in progress throws, or a statement fails: inside a
\* transaction everything it wrote is rolled back; the caller's promise rejects.
Fail(d, error) ==
    [d EXCEPT !.trx = NoTrx,
              !.result = [op |-> "insertUsage", settled |-> "rejected", value |-> error]]

\* Mutant of insertUsage(): the statements are sent without a transaction.
InsertUsageBegin_NoTransaction(d, accountId, inputTokens, outputTokens) ==
    LET d1 == [d EXCEPT !.calls = @ + 1,
                        !.trx = [NoTrx EXCEPT !.open = TRUE, !.mode = "db",
                                              !.accountId = accountId,
                                              !.inputTokens = inputTokens,
                                              !.outputTokens = outputTokens,
                                              !.tables = Tables(d), !.before = Tables(d)]]
    IN  IF accountId \notin DOMAIN d.accounts THEN Fail(d1, "Account not found")
        ELSE LET account == d.accounts[accountId]
                 c == Cascade(account.topup_remaining, account.token_remaining,
                              inputTokens + outputTokens)
             IN  [d1 EXCEPT !.trx.pc = "insert",
                            !.trx.topupRemaining = c.topup_remaining,
                            !.trx.tokenRemaining = c.token_remaining]

\* insertUsage(), lines 145-181: the transaction begins, the account is read and
\* the new balances are computed; a missing account throws.
InsertUsageBegin(d, accountId, inputTokens, outputTokens) ==
    LET d1 == [d EXCEPT !.calls = @ + 1,
                        !.trx = [NoTrx EXCEPT !.open = TRUE, !.mode = "trx",
                                              !.accountId = accountId,
                                              !.inputTokens = inputTokens,
                                              !.outputTokens = outputTokens,
                                              !.tables = Tables(d), !.before = Tables(d)]]
    IN  IF accountId \notin DOMAIN d.accounts THEN Fail(d1, "Account not found")
        ELSE LET account == d.accounts[accountId]
                 c == Cascade(account.topup_remaining, account.token_remaining,
                              inputTokens + outputTokens)
             IN  [d1 EXCEPT !.trx.pc = "insert",
                            !.trx.topupRemaining = c.topup_remaining,
                            !.trx.tokenRemaining = c.token_remaining]

\* insertUsage(), lines 183-195: the usage row is inserted.
InsertUsageRow(d) ==
    LET t == Visible(d)
        row == [account_id |-> d.trx.accountId, input_tokens |-> d.trx.inputTokens,
                output_tokens |-> d.trx.outputTokens,
                total_tokens |-> d.trx.inputTokens + d.trx.outputTokens]
    IN  [Write(d, [t EXCEPT !.usage_metrics = Append(@, row)]) EXCEPT !.trx.pc = "update"]

\* insertUsage(), lines 197-206: the balances of the account are updated.
UpdateAccountCredits(d) ==
    LET t == Visible(d)
        balances == [topup_remaining |-> d.trx.topupRemaining,
                     token_remaining |-> d.trx.tokenRemaining]
    IN  [Write(d, [t EXCEPT !.accounts[d.trx.accountId] = balances]) EXCEPT !.trx.pc = "commit"]

\* The callback has returned: the transaction commits and the promise resolves.
CommitUsage(d) ==
    [d EXCEPT !.accounts = d.trx.tables.accounts,
              !.usage_metrics = d.trx.tables.usage_metrics,
              !.spent[d.trx.accountId] = @ + d.trx.inputTokens + d.trx.outputTokens,
              !.trx = NoTrx,
              !.result = [op |-> "insertUsage", settled |-> "resolved", value |-> << >>]]

\* Whether a statement of another caller can run now: the one connection is
\* free unless a transaction holds it.
ConnectionFree(d) == ~(d.trx.open /\ d.trx.mode = "trx")

\* A concurrent reader (getCredits, validateAndLoad) reads the tables.
Observe(d) == [d EXCEPT !.observed = Tables(d)]

(***************************************************************************)
(* validateAndLoad().  A text (session data, conversation) is the sequence *)
(* of its pieces; the empty text is << >>.  Times are integers, and an     *)
(* api_keys row is active at time now when expires_at is NULL or later     *)
(* than now.  A row of the join is [account_id, type, data,                *)
(* token_remaining, topup_remaining] with type and data NULL where the     *)
(* left join found no session row.                                         *)
(***************************************************************************)
INVALID_AUTH == "INVALID_AUTH"
INTERNAL_ERROR == "INTERNAL_ERROR"
CONTEXT_PREFIX == "Here is the previous conversation that happened which should be continued now:"
LongPiece == "a conversation longer than SUMMARY_DEFAULTS.THRESHOLD_CHARS"

\* hashKey(plainKey): sha256, taken to be free of collisions.
HashKey(plainKey) == <<"sha256", plainKey>>

\* expires_at: << >> for NULL, <<t>> for the time t.
NoExpiry == << >>

\* Mutant of the WHERE clause: expires_at is not looked at.
IsActive_IgnoresExpiry(key, now) == TRUE

IsActive(key, now) == key.expires_at = NoExpiry \/ key.expires_at[1] > now

SessionRows(d, accountId, sessionId) ==
    {r \in d.sessions : r.account_id = accountId /\ r.session_id = sessionId}

\* The rows of a set of session rows in an order: SESSION before CONV.
OrderRows(rows) ==
    LET session == {r \in rows : r.type = "SESSION"}
        conv == {r \in rows : r.type = "CONV"}
    IN  (IF session = {} THEN << >> ELSE <<CHOOSE r \in session : TRUE>>)
            \o (IF conv = {} THEN << >> ELSE <<CHOOSE r \in conv : TRUE>>)

JoinRow(accountId, acc, type, data) ==
    [account_id |-> accountId, type |-> type, data |-> data,
     token_remaining |-> acc.token_remaining, topup_remaining |-> acc.topup_remaining]

\* Mutant of the query: sessions is joined with JOIN, as in
\* SQLiteAccountRepo.loadSessionByKeyAndId.
LoadSessionByKeyAndId_InnerJoin(d, apiKey, sessionId, now) ==
    LET keyHash == HashKey(apiKey)
    IN  IF keyHash \notin DOMAIN d.api_keys THEN << >>
        ELSE LET a == d.api_keys[keyHash]
             IN  IF ~IsActive(a, now) \/ a.account_id \notin DOMAIN d.accounts THEN << >>
                 ELSE LET acc == d.accounts[a.account_id]
                          found == OrderRows(SessionRows(d, a.account_id, sessionId))
                      IN  [i \in 1..Len(found) |->
                              JoinRow(a.account_id, acc, found[i].type, found[i].data)]

\* SQLSessionRepo.loadSessionByKeyAndId(apiKey, sessionId) at time now.
LoadSessionByKeyAndId(d, apiKey, sessionId, now) ==
    LET keyHash == HashKey(apiKey)
    IN  IF keyHash \notin DOMAIN d.api_keys THEN << >>
        ELSE LET a == d.api_keys[keyHash]
             IN  IF ~IsActive(a, now) \/ a.account_id \notin DOMAIN d.accounts THEN << >>
                 ELSE LET acc == d.accounts[a.account_id]
                          found == OrderRows(SessionRows(d, a.account_id, sessionId))
                      IN  IF found = << >>
                          THEN <<JoinRow(a.account_id, acc, NULL, << >>)>>
                          ELSE [i \in 1..Len(found) |->
                                  JoinRow(a.account_id, acc, found[i].type, found[i].data)]

\* conversation.length > SUMMARY_DEFAULTS.THRESHOLD_CHARS
ExceedsThreshold(conversation) == \E i \in 1..Len(conversation) : conversation[i] = LongPiece

\* truncateToRecent(content, maxChars) of a content longer than maxChars.
TruncateToRecent(content) ==
    <<"[...earlier context omitted...]">> \o SelectSeq(content, LAMBDA piece : piece # LongPiece)

\* createSyntheticSession(instructions)
CreateSyntheticSession(instructions) ==
    <<"{", "type:session.update", "session:{", "instructions">> \o instructions \o <<"}", "}">>

\* injectIntoInstructions(sessionData, context): the context goes to the end of the
\* first "instructions" member, else to a new member at the head of the object,
\* else nowhere.
InjectIntoInstructions(sessionData, context) ==
    IF \E i \in 1..Len(sessionData) : sessionData[i] = "instructions"
    THEN LET i == CHOOSE j \in 1..Len(sessionData) :
                      sessionData[j] = "instructions"
                          /\ \A k \in 1..(j - 1) : sessionData[k] # "instructions"
         IN  SubSeq(sessionData, 1, i) \o context \o SubSeq(sessionData, i + 1, Len(sessionData))
    ELSE IF sessionData # << >> /\ sessionData[1] = "{"
    THEN <<"{", "instructions">> \o context \o Tail(sessionData)
    ELSE sessionData

\* The last row of rows with the given type, its data || ''.
RowData(rows, type) ==
    LET S == {i \in 1..Len(rows) : rows[i].type = type}
    IN  IF S = {} THEN << >>
        ELSE rows[CHOOSE i \in S : \A j \in S : j <= i].data

SessionResult(error, accountId, sessionData, credits) ==
    [error |-> error, accountId |-> accountId, sessionData |-> sessionData, credits |-> credits,
     summarization |-> FALSE]

\* AccountServiceImpl.validateAndLoad(apiKey, sessionId) on the rows the query
\* returned; summarization says whether triggerSummarization() was started.
ValidateAndLoadRows(rows) ==
    IF Len(rows) = 0 THEN SessionResult(INVALID_AUTH, "", << >>, 0)
    ELSE LET accountId == rows[1].account_id
             totalCredits == rows[1].token_remaining + rows[1].topup_remaining
             sessionData == RowData(rows, "SESSION")
             conversation == RowData(rows, "CONV")
             contextToInject == IF ExceedsThreshold(conversation)
                                THEN TruncateToRecent(conversation) ELSE conversation
         IN  IF totalCredits <= 0 THEN SessionResult(NO_CREDITS, accountId, << >>, totalCredits)
             ELSE IF sessionData = << >> /\ Len(conversation) = 0
             THEN SessionResult("", accountId, << >>, totalCredits)
             ELSE [SessionResult("", accountId,
                                 IF sessionData = << >>
                                 THEN CreateSyntheticSession(<<CONTEXT_PREFIX>> \o contextToInject)
                                 ELSE IF Len(conversation) > 0
                                 THEN InjectIntoInstructions(sessionData,
                                                             <<CONTEXT_PREFIX>> \o contextToInject)
                                 ELSE sessionData,
                                 totalCredits)
                   EXCEPT !.summarization = ExceedsThreshold(conversation)]

\* validateAndLoad(): the query returns its rows, or throws and the catch answers.
ValidateAndLoad(d, apiKey, sessionId, now, queryThrows) ==
    [d EXCEPT !.result =
        [op |-> "validateAndLoad", settled |-> "resolved",
         value |-> [apiKey |-> apiKey, sessionId |-> sessionId, now |-> now, thrown |-> queryThrows,
                    returned |-> IF queryThrows THEN SessionResult(INTERNAL_ERROR, "", << >>, 0)
                                 ELSE ValidateAndLoadRows(
                                          LoadSessionByKeyAndId(d, apiKey, sessionId, now))]]]

(***************************************************************************)
(* The accept layer (Server.ts): the upgrade handler up to its await, the  *)
(* abort callback, the rest of the upgrade handler once validateAndLoad()  *)
(* has settled, and the open handler.  A socket is one upgrade request:    *)
(* its query parameters, the aborted flag, where its handler stands, the   *)
(* HTTP status written, what validateAndLoad() settled with, the user data *)
(* given to res.upgrade(), and the Orchestrator of the open handler with   *)
(* the upstream connections it constructed.                                *)
(***************************************************************************)
BAD_REQUEST == "400 Bad Request"
PAYMENT_REQUIRED == "402 Payment Required"
FORBIDDEN == "403 Forbidden"
SERVICE_UNAVAILABLE == "503 Service Unavailable"

NewServer == [sockets |-> << >>]

NoAuthResult == [settled |-> "pending", error |-> "", accountId |-> "", sessionData |-> "", credits |-> 0]

NewSocket(apiKey, sessionId) ==
    [apiKey |-> apiKey, sessionId |-> sessionId, aborted |-> FALSE, pc |-> "upgrade",
     status |-> "", authResult |-> NoAuthResult, userData |-> << >>,
     orchestrator |-> << >>, conns |-> << >>]

\* if (!res.aborted) res.cork(() => res.writeStatus(status).end(...)); return
RejectUpgrade(socket, status) ==
    [socket EXCEPT !.pc = "returned", !.status = IF socket.aborted THEN @ ELSE status]

\* upgrade, up to the await of validateAndLoad()
Upgrade(srv, apiKey, sessionId) ==
    LET socket == NewSocket(apiKey, sessionId)
    IN  [srv EXCEPT !.sockets =
            Append(@, IF apiKey = "" \/ sessionId = ""
                      THEN RejectUpgrade(socket, BAD_REQUEST)
                      ELSE [socket EXCEPT !.pc = "await"])]

\* res.onAborted(() => { res.aborted = true })
OnAborted(srv, n) == [srv EXCEPT !.sockets[n].aborted = TRUE]

\* Mutant of upgrade: authResult.error is not looked at.
UpgradeResume_NoErrorCheck(srv, n, authResult) ==
    LET socket == [srv.sockets[n] EXCEPT !.authResult = authResult]
    IN  [srv EXCEPT !.sockets[n] =
            IF authResult.settled = "rejected" THEN RejectUpgrade(socket, SERVICE_UNAVAILABLE)
            ELSE IF socket.aborted THEN [socket EXCEPT !.pc = "returned"]
            ELSE [socket EXCEPT !.pc = "upgraded",
                                !.userData = << [sessionId |-> socket.sessionId,
                                                 accountId |-> authResult.accountId,
                                                 sessionData |-> authResult.sessionData,
                                                 credits |-> authResult.credits] >>]]

\* upgrade, from the settlement of validateAndLoad() on
UpgradeResume(srv, n, authResult) ==
    LET socket == [srv.sockets[n] EXCEPT !.authResult = authResult]
    IN  [srv EXCEPT !.sockets[n] =
            IF authResult.settled = "rejected" THEN RejectUpgrade(socket, SERVICE_UNAVAILABLE)
            ELSE IF authResult.error # ""
            THEN RejectUpgrade(socket, IF authResult.error = NO_CREDITS THEN PAYMENT_REQUIRED ELSE FORBIDDEN)
            ELSE IF socket.aborted THEN [socket EXCEPT !.pc = "returned"]
            ELSE [socket EXCEPT !.pc = "upgraded",
                                !.userData = << [sessionId |-> socket.sessionId,
                                                 accountId |-> authResult.accountId,
                                                 sessionData |-> authResult.sessionData,
                                                 credits |-> authResult.credits] >>]]

\* open: factory.getNewOrchestrator(...), orchestrator.connect()
Open(srv, n) ==
    LET userData == srv.sockets[n].userData[1]
        w == OrchConnect([orch |-> NewOrchestrator(userData.sessionData, userData.credits),
                          conns |-> << >>, chk |-> NewCheckpointHandler, uh |-> NewUsageHandler,
                          ipc |-> NewIpc, up |-> << >>, client |-> NewClient,
                          tr |-> << >>, err |-> NoError])
    IN  [srv EXCEPT !.sockets[n].pc = "open",
                    !.sockets[n].orchestrator = << w.orch >>,
                    !.sockets[n].conns = w.conns]

(***************************************************************************)
(* The state machine.  last records the handler that ran: op (which),      *)
(* conn (the connection whose socket event it was, else 0), cb (whether    *)
(* the Orchestrator callback of that socket event was invoked), frame (the *)
(* upstream frame, else <<>>), tr (its effects in order), err, and again   *)
(* (the handler that ran before it was the same operation).                *)
(***************************************************************************)
Commit(w, op, c, cb, f) ==
    /\ orch' = w.orch
    /\ conns' = w.conns
    /\ chk' = w.chk
    /\ uh' = w.uh
    /\ ipc' = w.ipc
    /\ up' = w.up
    /\ client' = w.client
    /\ server' = server
    /\ zmq' = zmq
    /\ codec' = codec
    /\ db' = db
    /\ last' = [op |-> op, conn |-> c, cb |-> cb, frame |-> f, tr |-> w.tr, err |-> w.err,
                again |-> last.op = op]

\* Credits the accept layer may construct an Orchestrator with (it rejects credits <= 0).
InitCredits == {3}
SessionDataSet == {"", SessionJson, SessionBroken}

\* Frames the upstream delivers to the Orchestrator.
OrchFrames ==
    {FrameDone(1, 1), FrameSessionUpdated, FrameUserDelta(ShortUser), FrameAgentDelta(LongText)}

\* Frames given to the standalone UsageHandler.
UsageFrames ==
    {FrameDone(1, 2), FrameDoneEnvelope(2, 1), FrameDoneNoUsage, FrameDoneNullInput,
     FrameDoneNoOutput, FrameSessionUpdated}

NewHist ==
    [sends |-> 0, frames |-> 0, usageFrames |-> 0, cleanups |-> 0,
     replayed |-> FALSE, updatedSinceReplay |-> 0,
     doneSinceUpdate |-> 0, countedSinceUpdate |-> 0,
     ingestedInput |-> 0, ingestedOutput |-> 0]

Init ==
    /\ \E sd \in SessionDataSet, cr \in InitCredits : orch = NewOrchestrator(sd, cr)
    /\ conns = <<>>
    /\ chk = NewCheckpointHandler
    /\ uh = NewUsageHandler
    /\ ipc = NewIpc
    /\ up = <<>>
    /\ client = NewClient
    /\ server = NewServer
    /\ zmq = NewZmq /\ codec = NewCodec /\ db = NewDb
    /\ hist = NewHist
    /\ last = [op |-> "new", conn |-> 0, cb |-> FALSE, frame |-> <<>>, tr |-> <<>>, err |-> NoError,
               again |-> FALSE]

Started == orch.voiceConnection # 0

\* History: the token count a response.done frame reports under key, and
\* whether a frame delivered now reaches the usage accounting (the handler is
\* attached and the frame has gone out to the client).
RECURSIVE TokensOf(_, _)
TokensOf(f, key) ==
    IF f = <<>> THEN 0
    ELSE (IF Head(f).k = key /\ Head(f).d THEN Head(f).n ELSE 0) + TokensOf(Tail(f), key)
Ingested(cb, f) == cb /\ ~client.closed /\ StartsWithType(f, T_RESPONSE_DONE)

\* Server 'open': the accept layer constructs the Orchestrator and calls connect().
ServerOpen ==
    /\ ~Started
    /\ Len(conns) < MaxConns
    /\ Commit(OrchConnect(World), "connect", 0, FALSE, <<>>)
    /\ UNCHANGED hist

\* Server 'message': a client frame is handed to send().  The accept layer drops
\* its reference to the Orchestrator when it has called cleanup().
ClientSend ==
    /\ Started
    /\ hist.cleanups = 0
    /\ hist.sends < MaxSends
    /\ Commit(OrchSend(World, ClientEvent(hist.sends + 1)), "send", 0, FALSE, <<>>)
    /\ hist' = [hist EXCEPT !.sends = @ + 1]

\* Server 'close': the client stream is closed and cleanup() is called.
ClientClose ==
    /\ Started
    /\ hist.cleanups < MaxCleanups
    /\ Commit(Cleanup([World EXCEPT !.client.closed = TRUE]), "cleanup", 0, FALSE, <<>>)
    /\ hist' = [hist EXCEPT !.cleanups = @ + 1]

\* ws 'open' of connection c.
WsOpen(c) ==
    /\ conns[c].ws = "CONNECTING"
    /\ LET w0 == [World EXCEPT !.conns[c].ws = "OPEN", !.conns[c].isConnectionEstablished = TRUE]
           cb == w0.conns[c].handler
           w1 == IF cb THEN OnConnect(w0) ELSE w0
       IN  /\ Commit(w1, "ws.open", c, cb, <<>>)
           /\ hist' = [hist EXCEPT
                          !.replayed = \E i \in (Len(up) + 1)..Len(w1.up) :
                                           w1.up[i].data = SessionPayload,
                          !.updatedSinceReplay = 0]

\* ws 'message' of connection c.  A socket still emits messages while it is
\* closing, until its close completes, unless it has errored.
WsMessage(c, f) ==
    /\ conns[c].ws \in {"OPEN", "CLOSING"}
    /\ ~conns[c].errored
    /\ hist.frames < MaxFrames
    /\ LET cb == conns[c].handler
           w1 == IF cb THEN OnMsgReceived(World, f) ELSE World
       IN  /\ Commit(w1, "ws.message", c, cb, f)
           /\ hist' = [hist EXCEPT
                          !.frames = @ + 1,
                          !.updatedSinceReplay =
                              IF cb /\ StartsWithType(f, T_SESSION_UPDATED) THEN @ + 1 ELSE @,
                          !.ingestedInput = IF Ingested(cb, f) THEN @ + TokensOf(f, "input_tokens") ELSE @,
                          !.ingestedOutput = IF Ingested(cb, f) THEN @ + TokensOf(f, "output_tokens") ELSE @]

\* ws 'error' of connection c: the socket is left closing, with no more messages.
WsError(c) ==
    /\ conns[c].ws \in {"CONNECTING", "OPEN"}
    /\ LET w0 == [World EXCEPT !.conns[c].ws = "CLOSING", !.conns[c].errored = TRUE]
           cb == w0.conns[c].handler
           w1 == IF cb THEN OnError(w0) ELSE w0
       IN  Commit(w1, "ws.error", c, cb, <<>>)
    /\ UNCHANGED hist

\* ws 'close' of connection c (closed by the peer, by an error or by disconnect()).
WsClose(c) ==
    /\ conns[c].ws \in {"OPEN", "CLOSING"}
    /\ conns[c].handler => Len(conns) < MaxConns
    /\ LET w0 == [World EXCEPT !.conns[c].ws = "CLOSED", !.conns[c].isConnectionEstablished = FALSE]
           cb == w0.conns[c].handler
           w1 == IF cb THEN OnClose(w0) ELSE w0
           w2 == [w1 EXCEPT !.conns[c].ws = "null"]
       IN  /\ Commit(w2, "ws.close", c, cb, <<>>)
           /\ hist' = [hist EXCEPT
                          !.replayed = IF cb THEN FALSE ELSE @,
                          !.updatedSinceReplay = IF cb THEN 0 ELSE @]

Next ==
    \/ ServerOpen
    \/ ClientSend
    \/ ClientClose
    \/ \E c \in 1..Len(conns) : WsOpen(c)
    \/ \E c \in 1..Len(conns), f \in OrchFrames : WsMessage(c, f)
    \/ \E c \in 1..Len(conns) : WsError(c)
    \/ \E c \in 1..Len(conns) : WsClose(c)

Spec == Init /\ [][Next]_vars

(***************************************************************************)
(* The IPC transport alone: requests sent, their timers and send failures, *)
(* frames arriving in any order, and destroy().                            *)
(***************************************************************************)
\* The frames the peer may deliver for id: a frame without delimiter, a
\* GET_CREDITS response, a VALIDATE_AND_LOAD response.
ResponseFrames(id) ==
    {<<id>>, <<id, "", "7">>, <<id, "", "acc", "session", "7">>}

ZmqStep(z, op, n, parts) ==
    /\ zmq' = z
    /\ last' = [op |-> op, conn |-> n, cb |-> TRUE, frame |-> parts, tr |-> <<>>, err |-> z.thrown,
                again |-> last.op = op]
    /\ UNCHANGED <<orch, conns, chk, uh, ipc, up, client, server, codec, db, hist>>

ZmqConnect ==
    /\ ~zmq.connected /\ ~zmq.closed
    /\ ZmqStep(ZmqConnectCall(zmq), "zmq.connect", 0, <<>>)

ZmqSend(type) ==
    /\ Len(zmq.requests) < MaxRequests
    /\ ZmqStep(ZmqSendCall(zmq, Len(zmq.requests) + 1, type), "zmq.send", Len(zmq.requests) + 1, <<>>)

ZmqTimeout(n) ==
    /\ zmq.requests[n].timer = "armed"
    /\ ZmqStep(OnTimeout(zmq, n), "zmq.timeout", n, <<>>)

ZmqSendError(n) ==
    /\ zmq.requests[n].sending
    /\ ZmqStep(OnSendError(zmq, n), "zmq.sendError", n, <<>>)

ZmqSendDone(n) ==
    /\ zmq.requests[n].sending /\ zmq.connected
    /\ ZmqStep([zmq EXCEPT !.requests[n].sending = FALSE], "zmq.sent", n, <<>>)

ZmqReceive(parts) ==
    /\ zmq.connected
    /\ zmq.received < MaxZmqFrames
    /\ ZmqStep([OnFrame(zmq, parts) EXCEPT !.received = @ + 1], "zmq.receive", 0, parts)

ZmqDestroy ==
    /\ ~zmq.closed
    /\ ZmqStep(ZmqDestroyCall(zmq), "zmq.destroy", 0, <<>>)

InitZmq ==
    /\ Init
    /\ orch.sessionData = ""

NextZmq ==
    \/ ZmqConnect
    \/ \E type \in RequestTypes : ZmqSend(type)
    \/ \E n \in 1..Len(zmq.requests) : ZmqTimeout(n)
    \/ \E n \in 1..Len(zmq.requests) : ZmqSendError(n)
    \/ \E n \in 1..Len(zmq.requests) : ZmqSendDone(n)
    \/ \E id \in 0..Len(zmq.requests) : \E parts \in ResponseFrames(id) : ZmqReceive(parts)
    \/ ZmqDestroy

SpecZmq == InitZmq /\ [][NextZmq]_vars

\* The transport on a running event loop: an armed setTimeout timer fires
\* unless it is cleared first.
TimerFires(n) == n \in 1..Len(zmq.requests) /\ ZmqTimeout(n)

MaxTimedRequests == 1  \* requests handed to ZmqService.send() per behaviour of the fair transport

ZmqSendTimed(type) == Len(zmq.requests) < MaxTimedRequests /\ ZmqSend(type)

NextZmqFair ==
    \/ ZmqConnect
    \/ \E type \in RequestTypes : ZmqSendTimed(type)
    \/ \E n \in 1..Len(zmq.requests) : ZmqTimeout(n)
    \/ \E n \in 1..Len(zmq.requests) : ZmqSendError(n)
    \/ \E n \in 1..Len(zmq.requests) : ZmqSendDone(n)
    \/ \E id \in 0..Len(zmq.requests) : \E parts \in ResponseFrames(id) : ZmqReceive(parts)
    \/ ZmqDestroy

SpecZmqFair ==
    InitZmq /\ [][NextZmqFair]_vars /\ \A n \in 1..MaxTimedRequests : WF_vars(TimerFires(n))

(***************************************************************************)
(* The IPC transport with fire-and-forget sends between the requests.      *)
(***************************************************************************)
\* The id of the k-th fire-and-forget message: distinct from every request id.
FireAndForgetId(k) == MaxRequests + MaxZmqFrames + k

ZmqFireAndForget(type) ==
    /\ Len(zmq.fireAndForget) < MaxFireAndForget
    /\ ZmqStep(SendFireAndForget(zmq, FireAndForgetId(Len(zmq.fireAndForget) + 1), type),
               "zmq.fireAndForget", Len(zmq.fireAndForget) + 1, <<>>)

ZmqFireAndForgetSendError(k) ==
    /\ zmq.fireAndForget[k].state = "sending"
    /\ ZmqStep(OnFireAndForgetSendError(zmq, k), "zmq.fireAndForget.sendError", k, <<>>)

ZmqFireAndForgetSendDone(k) ==
    /\ zmq.fireAndForget[k].state = "sending" /\ zmq.connected
    /\ ZmqStep([zmq EXCEPT !.fireAndForget[k].state = "sent"], "zmq.fireAndForget.sent", k, <<>>)

NextFireAndForget ==
    \/ ZmqConnect
    \/ \E type \in RequestTypes : ZmqSend(type)
    \/ \E type \in FireAndForgetTypes : ZmqFireAndForget(type)
    \/ \E k \in 1..Len(zmq.fireAndForget) : ZmqFireAndForgetSendError(k)
    \/ \E k \in 1..Len(zmq.fireAndForget) : ZmqFireAndForgetSendDone(k)
    \/ ZmqDestroy

SpecFireAndForget == InitZmq /\ [][NextFireAndForget]_vars

(***************************************************************************)
(* The codec alone: any raw frame of at most MaxRawLen pieces is decoded   *)
(* as a request, or as the response to a request of either type.           *)
(***************************************************************************)
RawPieces == {ZMQ_DELIMITER, "a", Digit, "GET_CREDITS"}

RECURSIVE Raws(_)
Raws(n) ==
    IF n = 0 THEN {<<>>}
    ELSE LET shorter == Raws(n - 1)
         IN  shorter \cup {Append(r, p) : r \in {q \in shorter : Len(q) = n - 1}, p \in RawPieces}

CodecStep(c) ==
    /\ codec' = c
    /\ last' = [last EXCEPT !.op = c.op, !.again = FALSE]
    /\ UNCHANGED <<orch, conns, chk, uh, ipc, up, client, server, zmq, db, hist>>

DecodeRequest ==
    /\ codec.op = "none"
    /\ CodecStep([codec EXCEPT !.op = "decodeRequest", !.result = ZmqUtils_decodeRequest(codec.raw)])

DecodeResponse_(type) ==
    /\ codec.op = "none"
    /\ CodecStep([codec EXCEPT !.op = "decodeResponse", !.type = type,
                                !.result = ZmqUtils_decodeResponse(codec.raw, type)])

InitCodec ==
    /\ \E cr \in InitCredits : orch = NewOrchestrator("", cr)
    /\ conns = <<>>
    /\ chk = NewCheckpointHandler
    /\ uh = NewUsageHandler
    /\ ipc = NewIpc
    /\ up = <<>>
    /\ client = NewClient
    /\ server = NewServer
    /\ zmq = NewZmq
    /\ \E raw \in Raws(MaxRawLen) : codec = [NewCodec EXCEPT !.raw = raw]
    /\ db = NewDb
    /\ hist = NewHist
    /\ last = [op |-> "new", conn |-> 0, cb |-> FALSE, frame |-> <<>>, tr |-> <<>>, err |-> NoError,
               again |-> FALSE]

NextCodec ==
    \/ DecodeRequest
    \/ \E type \in RequestTypes : DecodeResponse_(type)

SpecCodec == InitCodec /\ [][NextCodec]_vars

(***************************************************************************)
(* The datastore under insertUsage(): calls for the account and for an     *)
(* unknown account, each statement a step of its own that may fail, and    *)
(* concurrent readers whenever the connection lets them in.                *)
(***************************************************************************)
DbStep(d, op) ==
    /\ db' = d
    /\ last' = [last EXCEPT !.op = op, !.again = FALSE]
    /\ UNCHANGED <<orch, conns, chk, uh, ipc, up, client, server, zmq, codec, hist>>

InsertUsageCall(accountId, inputTokens, outputTokens) ==
    /\ ~db.trx.open
    /\ db.calls < MaxUsageCalls
    /\ LET d == InsertUsageBegin(db, accountId, inputTokens, outputTokens)
       IN  DbStep(d, IF d.trx.open THEN "insertUsage.begin" ELSE "insertUsage.failed")

InsertUsageInsert ==
    /\ db.trx.open /\ db.trx.pc = "insert"
    /\ DbStep(InsertUsageRow(db), "insertUsage.insert")

InsertUsageUpdate ==
    /\ db.trx.open /\ db.trx.pc = "update"
    /\ DbStep(UpdateAccountCredits(db), "insertUsage.update")

InsertUsageCommit ==
    /\ db.trx.open /\ db.trx.pc = "commit"
    /\ DbStep(CommitUsage(db), "insertUsage.commit")

InsertUsageFails ==
    /\ db.trx.open
    /\ DbStep(Fail(db, "SQLITE_ERROR"), "insertUsage.failed")

ConcurrentRead ==
    /\ ConnectionFree(db)
    /\ db.observed # Tables(db)
    /\ DbStep(Observe(db), "read")

InitUsageDb ==
    /\ \E cr \in InitCredits : orch = NewOrchestrator("", cr)
    /\ conns = <<>>
    /\ chk = NewCheckpointHandler
    /\ uh = NewUsageHandler
    /\ ipc = NewIpc
    /\ up = <<>>
    /\ client = NewClient
    /\ server = NewServer
    /\ zmq = NewZmq
    /\ codec = NewCodec
    /\ \E topup \in (0 - 1)..MaxBalance, token \in (0 - 1)..MaxBalance :
          LET accounts == [a \in {AccountId} |-> [topup_remaining |-> topup, token_remaining |-> token]]
          IN  db = [NewDb EXCEPT !.accounts = accounts, !.initial = accounts,
                                 !.observed = [accounts |-> accounts, usage_metrics |-> << >>]]
    /\ hist = NewHist
    /\ last = [op |-> "new", conn |-> 0, cb |-> FALSE, frame |-> <<>>, tr |-> <<>>, err |-> NoError,
               again |-> FALSE]

NextUsageDb ==
    \/ \E accountId \in {AccountId, UnknownAccountId}, inputTokens \in 0..MaxTokens,
          outputTokens \in 0..MaxTokens : InsertUsageCall(accountId, inputTokens, outputTokens)
    \/ InsertUsageInsert
    \/ InsertUsageUpdate
    \/ InsertUsageCommit
    \/ InsertUsageFails
    \/ ConcurrentRead

SpecUsageDb == InitUsageDb /\ [][NextUsageDb]_vars

(***************************************************************************)
(* The datastore under validateAndLoad(): one account with any balances,   *)
(* its key absent, unexpiring or expiring at time 1, a SESSION row and a   *)
(* CONV row of session "s1" each absent or present, and calls with the     *)
(* key or another one, for "s1" or another session, at any time.           *)
(***************************************************************************)
PlainKeys == {"rslive_v1_key", "rslive_v1_other"}
SessionIds == {"s1", "s2"}
SessionDatas == {<<"{", "instructions", "}">>, <<"{", "}">>, << >>}
Conversations == {<<"user:hi">>, <<LongPiece, "agent:bye">>}

ApiKeyTables ==
    {<< >>} \cup {[h \in {HashKey("rslive_v1_key")} |-> [account_id |-> AccountId, expires_at |-> e]] :
                    e \in {NoExpiry, <<1>>}}

SessionTables ==
    {S \cup C :
        S \in {{}} \cup {{[account_id |-> AccountId, session_id |-> "s1", type |-> "SESSION",
                           data |-> data]} : data \in SessionDatas},
        C \in {{}} \cup {{[account_id |-> AccountId, session_id |-> "s1", type |-> "CONV",
                           data |-> data]} : data \in Conversations}}

ValidateAndLoadCall(apiKey, sessionId, now) ==
    DbStep(ValidateAndLoad(db, apiKey, sessionId, now, FALSE), "validateAndLoad")

ValidateAndLoadThrows(apiKey, sessionId, now) ==
    DbStep(ValidateAndLoad(db, apiKey, sessionId, now, TRUE), "validateAndLoad.catch")

InitLoad ==
    /\ \E cr \in InitCredits : orch = NewOrchestrator("", cr)
    /\ conns = <<>>
    /\ chk = NewCheckpointHandler
    /\ uh = NewUsageHandler
    /\ ipc = NewIpc
    /\ up = <<>>
    /\ client = NewClient
    /\ server = NewServer
    /\ zmq = NewZmq
    /\ codec = NewCodec
    /\ \E topup \in 0..MaxBalance, token \in (0 - 1)..MaxBalance,
          keys \in ApiKeyTables, sessions \in SessionTables :
          LET accounts == [a \in {AccountId} |-> [topup_remaining |-> topup, token_remaining |-> token]]
          IN  db = [NewDb EXCEPT !.accounts = accounts, !.initial = accounts,
                                 !.api_keys = keys, !.sessions = sessions]
    /\ hist = NewHist
    /\ last = [op |-> "new", conn |-> 0, cb |-> FALSE, frame |-> <<>>, tr |-> <<>>, err |-> NoError,
               again |-> FALSE]

NextLoad ==
    \/ \E apiKey \in PlainKeys, sessionId \in SessionIds, now \in 0..MaxClock :
          ValidateAndLoadCall(apiKey, sessionId, now)
    \/ \E apiKey \in PlainKeys, sessionId \in SessionIds, now \in 0..MaxClock :
          ValidateAndLoadThrows(apiKey, sessionId, now)

SpecLoad == InitLoad /\ [][NextLoad]_vars

(***************************************************************************)
(* Background summarization.  db.summaries holds the triggerSummarization()*)
(* calls awaiting the LLM, each with the conversation it was given and,    *)
(* as history, the texts appended to its session since it started;         *)
(* db.summarized is the history of the call that completed last, and       *)
(* db.appends counts the appendConversation() calls.                       *)
(***************************************************************************)
\* SQLSessionRepo.overwriteConversation(accountId, sessionId, content)
OverwriteConversation(d, accountId, sessionId, content) ==
    [d EXCEPT !.sessions =
        {IF r.account_id = accountId /\ r.session_id = sessionId /\ r.type = "CONV"
         THEN [r EXCEPT !.data = content] ELSE r : r \in d.sessions}]

\* SQLSessionRepo.appendConversation(accountId, sessionId, conversationData)
AppendConversationRow(d, accountId, sessionId, conversationData) ==
    LET old == {r \in d.sessions : r.account_id = accountId /\ r.session_id = sessionId /\ r.type = "CONV"}
    IN  [d EXCEPT
            !.sessions = IF old = {}
                         THEN @ \cup {[account_id |-> accountId, session_id |-> sessionId, type |-> "CONV",
                                        data |-> conversationData]}
                         ELSE {IF r \in old THEN [r EXCEPT !.data = @ \o conversationData] ELSE r : r \in @},
            !.summaries = [i \in 1..Len(@) |->
                              IF @[i].accountId = accountId /\ @[i].sessionId = sessionId
                              THEN [@[i] EXCEPT !.appended = @ \o conversationData] ELSE @[i]],
            !.appends = @ + 1]

\* triggerSummarization(accountId, sessionId, conversation) up to its await of
\* llmService.executePrompt().
TriggerSummarization(d, accountId, sessionId, conversation) ==
    [d EXCEPT !.summaries = Append(@, [accountId |-> accountId, sessionId |-> sessionId,
                                       conversation |-> conversation, appended |-> << >>])]

\* triggerSummarization() of db.summaries[i] from the LLM's response on: a
\* response without success or content throws, which the caller's catch logs.
SummarizationResumes(d, i, response) ==
    LET s == d.summaries[i]
        d1 == [d EXCEPT !.summaries = SubSeq(@, 1, i - 1) \o SubSeq(@, i + 1, Len(@)),
                        !.summarized = <<[s EXCEPT !.conversation = response.content]>>]
    IN  IF ~response.success \/ response.content = << >> THEN [d1 EXCEPT !.summarized = << >>]
        ELSE OverwriteConversation(d1, s.accountId, s.sessionId, response.content)

\* validateAndLoad() with the triggerSummarization() call it starts.
ValidateAndLoadSummarizing(d, apiKey, sessionId, now) ==
    LET d1 == ValidateAndLoad(d, apiKey, sessionId, now, FALSE)
        returned == d1.result.value.returned
    IN  IF returned.summarization
        THEN TriggerSummarization(d1, returned.accountId, sessionId,
                                  RowData(LoadSessionByKeyAndId(d, apiKey, sessionId, now), "CONV"))
        ELSE d1

MaxAppends == 2       \* calls of appendConversation() per behaviour
MaxSummaries == 2     \* summarizations awaiting the LLM at a time

AppendedTexts == {<<"\nuser:more">>, <<"\nagent:ok">>}
LlmResponses ==
    {[success |-> TRUE, content |-> <<"summary">>], [success |-> TRUE, content |-> << >>],
     [success |-> FALSE, content |-> << >>]}

LoadCall(apiKey, sessionId) ==
    /\ Len(db.summaries) < MaxSummaries
    /\ DbStep(ValidateAndLoadSummarizing(db, apiKey, sessionId, 0), "validateAndLoad")

AppendConversationCall(sessionId, conversationData) ==
    /\ db.appends < MaxAppends
    /\ DbStep(AppendConversationRow(db, AccountId, sessionId, conversationData), "appendConversation")

LlmResponds(i, response) ==
    DbStep(SummarizationResumes(db, i, response),
           IF response.success /\ response.content # << >>
           THEN "overwriteConversation" ELSE "summarization.failed")

InitSummary ==
    /\ \E cr \in InitCredits : orch = NewOrchestrator("", cr)
    /\ conns = <<>>
    /\ chk = NewCheckpointHandler
    /\ uh = NewUsageHandler
    /\ ipc = NewIpc
    /\ up = <<>>
    /\ client = NewClient
    /\ server = NewServer
    /\ zmq = NewZmq
    /\ codec = NewCodec
    /\ \E sessions \in SessionTables :
          LET accounts == [a \in {AccountId} |-> [topup_remaining |-> 0, token_remaining |-> 1]]
              keys == [h \in {HashKey("rslive_v1_key")} |-> [account_id |-> AccountId, expires_at |-> NoExpiry]]
          IN  db = [NewDb EXCEPT !.accounts = accounts, !.initial = accounts,
                                 !.api_keys = keys, !.sessions = sessions]
    /\ hist = NewHist
    /\ last = [op |-> "new", conn |-> 0, cb |-> FALSE, frame |-> <<>>, tr |-> <<>>, err |-> NoError,
               again |-> FALSE]

NextSummary ==
    \/ \E apiKey \in PlainKeys, sessionId \in SessionIds : LoadCall(apiKey, sessionId)
    \/ \E sessionId \in SessionIds, conversationData \in AppendedTexts :
          AppendConversationCall(sessionId, conversationData)
    \/ \E i \in 1..Len(db.summaries), response \in LlmResponses : LlmResponds(i, response)

SpecSummary == InitSummary /\ [][NextSummary]_vars

(***************************************************************************)
(* The Migrator: runAll(), runMigration() and rollback() on a database     *)
(* file whose statements may fail.  The file starts with any of the        *)
(* tables, each with as many of its indexes as its script got to create    *)
(* before it was interrupted.  db.migrations holds the result lists of the *)
(* runAll() calls made in succession: any other call starts it afresh.     *)
(***************************************************************************)
Prefixes(seq) == {Range(SubSeq(seq, 1, n)) : n \in 0..Len(seq)}

InitialSchemas ==
    {s \in [tables : SUBSET TableNames, indexes : SUBSET MigratedSchema.indexes, fault : {0}] :
        \A t \in TableNames :
            s.indexes \cap Range(IndexesOn(t)) \in
                (IF t \in s.tables THEN Prefixes(IndexesOn(t)) ELSE {{}})}

MigratorStep(schema, migrations, op) ==
    /\ db' = [db EXCEPT !.schema = [schema EXCEPT !.fault = 0], !.migrations = migrations]
    /\ last' = [last EXCEPT !.op = op, !.again = (last.op = op /\ op = "runAll")]
    /\ UNCHANGED <<orch, conns, chk, uh, ipc, up, client, server, zmq, codec, hist>>

MigratorRunAll(fault) ==
    LET r == RunAll([db.schema EXCEPT !.fault = fault])
    IN  MigratorStep(r.db, [previous |-> db.migrations.latest, latest |-> r.results], "runAll")

MigratorRunMigration(fileName, fault) ==
    LET r == RunMigration([db.schema EXCEPT !.fault = fault], fileName)
    IN  MigratorStep(r.db, NewDb.migrations, "runMigration")

MigratorRollback(fileName, fault) ==
    LET r == Rollback([db.schema EXCEPT !.fault = fault], fileName)
    IN  MigratorStep(r.db, NewDb.migrations, "rollback")

InitMigrator ==
    /\ \E cr \in InitCredits : orch = NewOrchestrator("", cr)
    /\ conns = <<>>
    /\ chk = NewCheckpointHandler
    /\ uh = NewUsageHandler
    /\ ipc = NewIpc
    /\ up = <<>>
    /\ client = NewClient
    /\ server = NewServer
    /\ zmq = NewZmq
    /\ codec = NewCodec
    /\ \E schema \in InitialSchemas : db = [NewDb EXCEPT !.schema = schema]
    /\ hist = NewHist
    /\ last = [op |-> "new", conn |-> 0, cb |-> FALSE, frame |-> <<>>, tr |-> <<>>, err |-> NoError,
               again |-> FALSE]

NextMigrator ==
    \/ \E fault \in 0..MaxStatements : MigratorRunAll(fault)
    \/ \E fileName \in Range(MigrationFiles), fault \in 0..1 : MigratorRunMigration(fileName, fault)
    \/ \E fileName \in Range(MigrationFiles), fault \in 0..1 : MigratorRollback(fileName, fault)

SpecMigrator == InitMigrator /\ [][NextMigrator]_vars

(***************************************************************************)
(* The accept layer: upgrade requests with and without their parameters,   *)
(* aborted or not, and every way validateAndLoad() settles.                *)
(***************************************************************************)
\* What validateAndLoad() settles with: the SessionData the account service
\* answered, or a rejection (the request timed out, could not be sent, or the
\* transport was destroyed).
AuthResults ==
    {[settled |-> "rejected", error |-> "", accountId |-> "", sessionData |-> "", credits |-> 0]} \cup
    {[settled |-> "resolved", error |-> "", accountId |-> AccountId, sessionData |-> sd, credits |-> cr] :
        sd \in {"", SessionJson}, cr \in InitCredits} \cup
    {[settled |-> "resolved", error |-> NO_CREDITS, accountId |-> AccountId, sessionData |-> "", credits |-> 0],
     [settled |-> "resolved", error |-> INVALID_AUTH, accountId |-> "", sessionData |-> "", credits |-> 0],
     [settled |-> "resolved", error |-> INTERNAL_ERROR, accountId |-> "", sessionData |-> "", credits |-> 0]}

ServerStep(srv, op, n) ==
    /\ server' = srv
    /\ last' = [last EXCEPT !.op = op, !.conn = n, !.again = FALSE]
    /\ UNCHANGED <<orch, conns, chk, uh, ipc, up, client, zmq, codec, db, hist>>

AcceptUpgrade(apiKey, sessionId) ==
    /\ Len(server.sockets) < MaxSockets
    /\ ServerStep(Upgrade(server, apiKey, sessionId), "upgrade", Len(server.sockets) + 1)

AcceptAborted(n) ==
    /\ server.sockets[n].pc = "await"
    /\ ~server.sockets[n].aborted
    /\ ServerStep(OnAborted(server, n), "aborted", n)

AcceptResume(n, authResult) ==
    /\ server.sockets[n].pc = "await"
    /\ ServerStep(UpgradeResume(server, n, authResult), "upgrade.resume", n)

AcceptOpen(n) ==
    /\ server.sockets[n].pc = "upgraded"
    /\ ServerStep(Open(server, n), "open", n)

InitServer ==
    /\ Init
    /\ orch.sessionData = ""

NextServer ==
    \/ \E apiKey \in {"", "rs_key"}, sessionId \in {"", "rs_sessid"} : AcceptUpgrade(apiKey, sessionId)
    \/ \E n \in 1..Len(server.sockets) : AcceptAborted(n)
    \/ \E n \in 1..Len(server.sockets), authResult \in AuthResults : AcceptResume(n, authResult)
    \/ \E n \in 1..Len(server.sockets) : AcceptOpen(n)

SpecServer == InitServer /\ [][NextServer]_vars

(***************************************************************************)
(* The periodic credit refresh: a Connected Orchestrator that has received *)
(* nearly MAX_RESPONSES_BEFORE_CREDIT_CHECK completions, the client still  *)
(* sending, and GET_CREDITS completing at any later time.                  *)
(***************************************************************************)
PlanCredits == 1000
RefreshedCredits == {0, 500}

\* The world once connect() has returned, the upstream has opened and n completions
\* FrameDone(1, 1) have been received: each took 2 credits, was counted, and every
\* USAGE_BATCH_SIZE-th one flushed the usage batch.
CountedWorld(n) ==
    LET w0 == [orch |-> NewOrchestrator("", PlanCredits), conns |-> <<>>,
               chk |-> NewCheckpointHandler, uh |-> NewUsageHandler, ipc |-> NewIpc,
               up |-> <<>>, client |-> NewClient, tr |-> <<>>, err |-> NoError]
        w1 == [OrchConnect(w0) EXCEPT !.conns[1].ws = "OPEN",
                                      !.conns[1].isConnectionEstablished = TRUE]
        w2 == [OnConnect(w1) EXCEPT !.tr = <<>>]
    IN  [w2 EXCEPT
            !.client.sent = n,
            !.orch.credits = PlanCredits - 2 * n,
            !.orch.responseCount = n,
            !.orch.usageResponseCount = n % USAGE_BATCH_SIZE,
            !.orch.usageBuffer = [inputTokens |-> n % USAGE_BATCH_SIZE,
                                  outputTokens |-> n % USAGE_BATCH_SIZE],
            !.ipc.updateUsage = n \div USAGE_BATCH_SIZE,
            !.ipc.usageInput = n - (n % USAGE_BATCH_SIZE),
            !.ipc.usageOutput = n - (n % USAGE_BATCH_SIZE)]

\* Starts when the last of n completions has just been received, for the last
\* counts up to the refresh cadence.
InitCredits50 ==
    \E n \in (MAX_RESPONSES_BEFORE_CREDIT_CHECK - MaxPrefill)..MAX_RESPONSES_BEFORE_CREDIT_CHECK :
        LET w == OnMsgReceived(CountedWorld(n - 1), FrameDone(1, 1))
        IN  /\ orch = w.orch /\ conns = w.conns /\ chk = w.chk /\ uh = w.uh
            /\ ipc = w.ipc /\ up = w.up /\ client = w.client /\ server = NewServer /\ zmq = NewZmq /\ codec = NewCodec /\ db = NewDb
            /\ hist = [NewHist EXCEPT !.ingestedInput = n, !.ingestedOutput = n]
            /\ last = [op |-> "ws.message", conn |-> 1, cb |-> TRUE, frame |-> FrameDone(1, 1),
                       tr |-> w.tr, err |-> w.err, again |-> TRUE]

\* The GET_CREDITS promise settles.
CreditsResolved(cr) ==
    /\ ipc.getCreditsPending > 0
    /\ Commit(OnCreditsResolved(World, cr), "getCredits.then", 0, TRUE, <<>>)
    /\ UNCHANGED hist

CreditsRejected ==
    /\ ipc.getCreditsPending > 0
    /\ Commit(OnCreditsRejected(World), "getCredits.catch", 0, TRUE, <<>>)
    /\ UNCHANGED hist

NextCredits ==
    \/ ClientSend
    \/ \E c \in 1..Len(conns) : WsMessage(c, FrameDone(1, 1))
    \/ \E cr \in RefreshedCredits : CreditsResolved(cr)
    \/ CreditsRejected

SpecCredits == InitCredits50 /\ [][NextCredits]_vars

(***************************************************************************)
(* The same session with no external top-up: GET_CREDITS answers with the  *)
(* account's balance, the credits at construction less every UPDATE_USAGE  *)
(* the datastore has applied (insertUsage deducts input plus output        *)
(* tokens).  The transport delivers in order, so at the latest the answer  *)
(* reflects every UPDATE_USAGE issued before the answer arrives.           *)
(***************************************************************************)
AccountBalance == PlanCredits - (ipc.usageInput + ipc.usageOutput)

CreditsResolvedFromBalance ==
    /\ ipc.getCreditsPending > 0
    /\ Commit(OnCreditsResolved(World, AccountBalance), "getCredits.then", 0, TRUE, <<>>)
    /\ UNCHANGED hist

NextBalance ==
    \/ ClientSend
    \/ \E c \in 1..Len(conns) : WsMessage(c, FrameDone(1, 1))
    \/ CreditsResolvedFromBalance
    \/ CreditsRejected

SpecBalance == InitCredits50 /\ [][NextBalance]_vars

(***************************************************************************)
(* The usage accounting of a session: an Orchestrator that has ingested    *)
(* nearly USAGE_BATCH_SIZE completions, with credits for a few more or for *)
(* many, further upstream frames, upstream errors and closes, and the      *)
(* client closing at any time.                                             *)
(***************************************************************************)
CreditsLeft == {2, 4, PlanCredits}

InitUsageTotals ==
    \E n \in (USAGE_BATCH_SIZE - MaxPrefill)..(USAGE_BATCH_SIZE - 1), cr \in CreditsLeft :
        LET w == [CountedWorld(n) EXCEPT !.orch.credits = cr]
        IN  /\ orch = w.orch /\ conns = w.conns /\ chk = w.chk /\ uh = w.uh
            /\ ipc = w.ipc /\ up = w.up /\ client = w.client /\ server = NewServer
            /\ zmq = NewZmq /\ codec = NewCodec /\ db = NewDb
            /\ hist = [NewHist EXCEPT !.ingestedInput = n, !.ingestedOutput = n]
            /\ last = [op |-> "ws.message", conn |-> 1, cb |-> TRUE, frame |-> FrameDone(1, 1),
                       tr |-> <<>>, err |-> NoError, again |-> TRUE]

NextUsageTotals ==
    \/ ClientClose
    \/ \E c \in 1..Len(conns) : WsOpen(c)
    \/ \E c \in 1..Len(conns), f \in OrchFrames : WsMessage(c, f)
    \/ \E c \in 1..Len(conns) : WsError(c)
    \/ \E c \in 1..Len(conns) : WsClose(c)

SpecUsageTotals == InitUsageTotals /\ [][NextUsageTotals]_vars

(***************************************************************************)
(* The same session close to depletion: after n completions the account    *)
(* has a few credits left or plenty, and GET_CREDITS answers with any of   *)
(* RefreshedCredits.                                                       *)
(***************************************************************************)
InitDepletion ==
    \E n \in (MAX_RESPONSES_BEFORE_CREDIT_CHECK - MaxPrefill)..MAX_RESPONSES_BEFORE_CREDIT_CHECK,
       cr \in CreditsLeft :
        LET w == [CountedWorld(n) EXCEPT !.orch.credits = cr]
        IN  /\ orch = w.orch /\ conns = w.conns /\ chk = w.chk /\ uh = w.uh
            /\ ipc = w.ipc /\ up = w.up /\ client = w.client /\ server = NewServer
            /\ zmq = NewZmq /\ codec = NewCodec /\ db = NewDb
            /\ hist = [NewHist EXCEPT !.ingestedInput = n, !.ingestedOutput = n]
            /\ last = [op |-> "ws.message", conn |-> 1, cb |-> TRUE, frame |-> FrameDone(1, 1),
                       tr |-> <<>>, err |-> NoError, again |-> TRUE]

SpecDepletion == InitDepletion /\ [][NextCredits]_vars

(***************************************************************************)
(* The credit refresh over the IPC transport: getCredits() hands a         *)
(* GET_CREDITS request to ZmqService.send(), and the then/catch callbacks  *)
(* of checkAndScheduleCreditsCheck() run when the request's promise        *)
(* settles, before any other event is handled.                             *)
(***************************************************************************)
RECURSIVE CreditsCallbacks(_, _, _)
\* The callbacks of the requests S that z has settled.
CreditsCallbacks(w, z, S) ==
    IF S = {} THEN w
    ELSE LET n == CHOOSE k \in S : \A j \in S : k <= j
             w1 == IF z.requests[n].promise = "resolved"
                   THEN OnCreditsResolved(w, z.requests[n].value.fields[1])
                   ELSE OnCreditsRejected(w)
         IN  CreditsCallbacks(w1, z, S \ {n})

\* The transport moves to z and the callbacks of the requests settled by that run.
IpcStep(w, z, op, n, parts) ==
    LET S == {k \in 1..Len(z.requests) :
                 /\ z.requests[k].promise # "pending"
                 /\ k \in 1..Len(zmq.requests) => zmq.requests[k].promise = "pending"}
        w1 == CreditsCallbacks(w, z, S)
    IN  /\ zmq' = z
        /\ orch' = w1.orch /\ conns' = w1.conns /\ chk' = w1.chk /\ uh' = w1.uh
        /\ ipc' = w1.ipc /\ up' = w1.up /\ client' = w1.client
        /\ last' = [op |-> op, conn |-> n, cb |-> TRUE, frame |-> parts, tr |-> w1.tr, err |-> w1.err,
                    again |-> last.op = op]
        /\ UNCHANGED <<server, codec, db>>

\* The frames the peer may deliver for id: a frame without delimiter and the
\* GET_CREDITS responses.
CreditsFrames(id) == {<<id>>} \cup {<<id, "", cr>> : cr \in RefreshedCredits}

GetCreditsSend ==
    /\ hist.sends < MaxSends
    /\ LET w == OrchSend(World, ClientEvent(hist.sends + 1))
           launched == w.ipc.getCredits > ipc.getCredits
           z == IF launched THEN ZmqSendCall(zmq, Len(zmq.requests) + 1, GET_CREDITS) ELSE zmq
       IN  IpcStep(w, z, "send", 0, <<>>)
    /\ hist' = [hist EXCEPT !.sends = @ + 1]

GetCreditsTimeout(n) ==
    /\ n \in 1..Len(zmq.requests)
    /\ zmq.requests[n].timer = "armed"
    /\ IpcStep(World, OnTimeout(zmq, n), "zmq.timeout", n, <<>>)
    /\ UNCHANGED hist

GetCreditsSendError(n) ==
    /\ zmq.requests[n].sending
    /\ IpcStep(World, OnSendError(zmq, n), "zmq.sendError", n, <<>>)
    /\ UNCHANGED hist

GetCreditsSendDone(n) ==
    /\ zmq.requests[n].sending /\ zmq.connected
    /\ IpcStep(World, [zmq EXCEPT !.requests[n].sending = FALSE], "zmq.sent", n, <<>>)
    /\ UNCHANGED hist

GetCreditsReceive(parts) ==
    /\ zmq.connected
    /\ zmq.received < MaxZmqFrames
    /\ IpcStep(World, [OnFrame(zmq, parts) EXCEPT !.received = @ + 1], "zmq.receive", 0, parts)
    /\ UNCHANGED hist

TransportDestroy ==
    /\ ~zmq.closed
    /\ IpcStep(World, ZmqDestroyCall(zmq), "zmq.destroy", 0, <<>>)
    /\ UNCHANGED hist

InitCreditsIpc ==
    \E n \in {MAX_RESPONSES_BEFORE_CREDIT_CHECK}, z \in {NewZmq, ZmqConnectCall(NewZmq)} :
        LET w == CountedWorld(n)
        IN  /\ orch = w.orch /\ conns = w.conns /\ chk = w.chk /\ uh = w.uh
            /\ ipc = w.ipc /\ up = w.up /\ client = w.client /\ server = NewServer
            /\ zmq = z /\ codec = NewCodec /\ db = NewDb
            /\ hist = [NewHist EXCEPT !.ingestedInput = n, !.ingestedOutput = n]
            /\ last = [op |-> "ws.message", conn |-> 1, cb |-> TRUE, frame |-> FrameDone(1, 1),
                       tr |-> <<>>, err |-> NoError, again |-> TRUE]

NextCreditsIpc ==
    \/ GetCreditsSend
    \/ \E n \in 1..Len(zmq.requests) : GetCreditsTimeout(n)
    \/ \E n \in 1..Len(zmq.requests) : GetCreditsSendError(n)
    \/ \E n \in 1..Len(zmq.requests) : GetCreditsSendDone(n)
    \/ \E id \in 0..Len(zmq.requests) : \E parts \in CreditsFrames(id) : GetCreditsReceive(parts)
    \/ TransportDestroy

\* On a running event loop an armed timer fires unless it is cleared first; the
\* Orchestrator has at most one GET_CREDITS, hence one armed timer, at a time.
SpecCreditsIpc ==
    InitCreditsIpc /\ [][NextCreditsIpc]_vars
        /\ WF_vars(\E n \in 1..Len(zmq.requests) : GetCreditsTimeout(n))

(***************************************************************************)
(* The message buffer alone: a client that keeps sending while the first   *)
(* upstream connection is still connecting.                                *)
(***************************************************************************)
BufferedSend ==
    /\ Started
    /\ ~orch.isVoiceProviderConnected
    /\ hist.sends < MAX_BUFFER_SIZE + MaxOverflowSends
    /\ Commit(OrchSend(World, ClientEvent(hist.sends + 1)), "send", 0, FALSE, <<>>)
    /\ hist' = [hist EXCEPT !.sends = @ + 1]

\* The world once connect() has returned and n client frames have been handed to
\* send() before the upstream opened: every one of them was pushed onto the buffer.
BufferedWorld(n) ==
    LET w0 == [orch |-> NewOrchestrator("", 3), conns |-> <<>>, chk |-> NewCheckpointHandler,
               uh |-> NewUsageHandler, ipc |-> NewIpc, up |-> <<>>, client |-> NewClient,
               tr |-> <<>>, err |-> NoError]
    IN  [OrchConnect(w0) EXCEPT !.orch.messageBuffer = [i \in 1..n |-> ClientEvent(i)]]

\* Starts either at construction or at one of the last fill levels the sends
\* below reach, so that the full buffer is also a short run away.
InitBuffer ==
    \/ /\ Init
       /\ orch.sessionData = ""
    \/ \E n \in (MAX_BUFFER_SIZE - MaxPrefill)..MAX_BUFFER_SIZE :
          LET w == BufferedWorld(n)
          IN  /\ orch = w.orch /\ conns = w.conns /\ chk = w.chk /\ uh = w.uh
              /\ ipc = w.ipc /\ up = w.up /\ client = w.client /\ server = NewServer /\ zmq = NewZmq /\ codec = NewCodec /\ db = NewDb
              /\ hist = [NewHist EXCEPT !.sends = n]
              /\ last = [op |-> "send", conn |-> 0, cb |-> FALSE, frame |-> <<>>,
                         tr |-> <<"buffer.push">>, err |-> NoError, again |-> n > 1]

NextBuffer ==
    \/ ServerOpen
    \/ BufferedSend

SpecBuffer == InitBuffer /\ [][NextBuffer]_vars

(***************************************************************************)
(* The UsageHandler alone: any sequence of saveUsage(frame) and flush().   *)
(* doneSinceUpdate counts the frames carrying the response.done literal,   *)
(* countedSinceUpdate those among them with both token counts, since the   *)
(* last UPDATE_USAGE.                                                      *)
(***************************************************************************)
HasUsage(f) == f \in {FrameDone(1, 2), FrameDoneEnvelope(2, 1)}
IsResponseDone(f) == f \in UsageFrames \ {FrameSessionUpdated}

UsageSave(f) ==
    /\ hist.usageFrames < MaxUsageFrames
    /\ LET w == SaveUsage(World, f)
           issued == w.ipc.updateUsage # ipc.updateUsage
       IN  /\ Commit(w, "saveUsage", 0, FALSE, f)
           /\ hist' = [hist EXCEPT
                          !.usageFrames = @ + 1,
                          !.doneSinceUpdate =
                              IF issued THEN 0 ELSE IF IsResponseDone(f) THEN @ + 1 ELSE @,
                          !.countedSinceUpdate =
                              IF issued THEN 0 ELSE IF HasUsage(f) THEN @ + 1 ELSE @]

UsageFlushCall ==
    LET w == UsageFlush(World)
        issued == w.ipc.updateUsage # ipc.updateUsage
    IN  /\ Commit(w, "usage.flush", 0, FALSE, <<>>)
        /\ hist' = [hist EXCEPT
                       !.doneSinceUpdate = IF issued THEN 0 ELSE @,
                       !.countedSinceUpdate = IF issued THEN 0 ELSE @]

NextUsage ==
    \/ \E f \in UsageFrames : UsageSave(f)
    \/ UsageFlushCall

InitUsage ==
    /\ Init
    /\ orch.sessionData = ""

SpecUsage == InitUsage /\ [][NextUsage]_vars

(***************************************************************************)
(* Properties.                                                             *)
(***************************************************************************)
\* The number of occurrences of effect e in trace tr.
Count(tr, e) == Cardinality({i \in 1..Len(tr) : tr[i] = e})
\* Effect a occurs in tr, and before every occurrence of effect b.
Before(tr, a, b) ==
    \E i \in 1..Len(tr) : tr[i] = a /\ \A j \in 1..Len(tr) : tr[j] = b => i < j
\* The client events among the payloads written upstream, as their numbers in order.
ClientWrites == SelectSeq(up, LAMBDA e : e.data.v >= 1)
\* The step left the Orchestrator, its handlers and everything they emit as they were.
OrchestratorUntouched ==
    /\ orch' = orch /\ chk' = chk /\ ipc' = ipc /\ up' = up /\ client' = client
    /\ Len(conns') = Len(conns)

\* C1: once disconnect() of a connection has been called, a later message or
\* close event of that connection invokes no Orchestrator callback and changes
\* nothing of the Orchestrator's state.
C1_NoCallbackAfterDisconnect ==
    [][\A c \in 1..Len(conns) :
          (conns[c].disconnected /\ last'.conn = c /\ last'.op \in {"ws.message", "ws.close"})
              => (~last'.cb /\ OrchestratorUntouched)]_vars

C1_Witness ==
    \E c \in 1..Len(conns) :
        /\ conns[c].disconnected
        /\ last.conn = c /\ last.op = "ws.message" /\ ~last.cb
        /\ last.frame = FrameSessionUpdated

\* C2: a close event delivered to Orchestrator.onClose constructs and connects
\* exactly one new upstream connection, which becomes the current one, and the
\* prior connection has been disconnect()ed before the new one is created.
C2_OneReconnectPerClose ==
    [][(last'.op = "ws.close" /\ last'.cb) =>
          /\ Len(conns') = Len(conns) + 1
          /\ orch'.voiceConnection = Len(conns')
          /\ conns'[Len(conns')].handler /\ conns'[Len(conns')].ws = "CONNECTING"
          /\ Count(last'.tr, "new connection") = 1
          /\ Count(last'.tr, "voice.connect") = 1
          /\ orch.voiceConnection # 0
          /\ conns'[orch.voiceConnection].disconnected
          /\ ~conns'[orch.voiceConnection].handler
          /\ Before(last'.tr, "disconnect", "new connection")]_vars

C2_Witness ==
    /\ last.op = "ws.close" /\ last.cb
    /\ Len(conns) = 2 /\ orch.voiceConnection = 2

\* C3: disconnect() nulls the handler reference before it initiates the close of
\* the socket: no close is initiated while the handler is still attached.
C3_HandlerNulledBeforeClose ==
    \A c \in 1..Len(conns) : ~conns[c].closedAttached

\* C4: the client events written upstream appear in the order in which send()
\* received them, buffered-then-drained ones included.
C4_ClientFifo ==
    \A i, j \in 1..Len(ClientWrites) :
        i < j => ClientWrites[i].data.v < ClientWrites[j].data.v

C4_Witness ==
    /\ last.op = "ws.open" /\ last.cb
    /\ Count(last.tr, "upstream.send") >= 2
    /\ Len(ClientWrites) >= 2

C7_Original ==
    [][/\ last'.op = "saveUsage" =>
             ipc'.updateUsage - ipc.updateUsage =
                 IF IsResponseDone(last'.frame) /\ hist.doneSinceUpdate + 1 = UH_USAGE_BATCH_SIZE
                 THEN 1 ELSE 0
       /\ last'.op = "usage.flush" =>
             /\ ipc'.updateUsage - ipc.updateUsage \in {0, 1}
             /\ ipc'.updateUsage # ipc.updateUsage => hist.doneSinceUpdate > 0]_vars

\* C7 amended: the frames that count are the response.done frames from which both
\* token counts are extracted; one UPDATE_USAGE at every 5th of them since the last
\* UPDATE_USAGE and none in between; flush() adds at most one, and only if at least
\* one of them has been ingested since the last UPDATE_USAGE.
C7_BatchingBound ==
    [][/\ last'.op = "saveUsage" =>
             ipc'.updateUsage - ipc.updateUsage =
                 IF HasUsage(last'.frame) /\ hist.countedSinceUpdate + 1 = UH_USAGE_BATCH_SIZE
                 THEN 1 ELSE 0
       /\ last'.op = "usage.flush" =>
             /\ ipc'.updateUsage - ipc.updateUsage \in {0, 1}
             /\ ipc'.updateUsage # ipc.updateUsage => hist.countedSinceUpdate > 0]_vars

C7_Witness ==
    /\ last.op = "saveUsage" /\ Count(last.tr, "updateUsage") = 1
    /\ ipc.updateUsage = 2
    /\ hist.usageFrames = 2 * UH_USAGE_BATCH_SIZE

\* C8: when flush() of the Checkpoint handler has returned, its fragment list is
\* empty, its length counter 0 and its speaker none; and the state was already
\* reset at the moment every APPEND_CONVERSATION was issued.
C8_ResetBeforeSend ==
    /\ ~ipc.appendedUnreset
    /\ (last.op = "cleanup" \/ Count(last.tr, "appendConversation") > 0)
           => chk = NewCheckpointHandler

C8_Witness ==
    /\ last.op = "cleanup"
    /\ Count(last.tr, "appendConversation") = 1
    /\ ipc.conversation = "user:hi"

C10_CleanupIdempotent ==
    [][(last.op = "cleanup" /\ last'.op = "cleanup") =>
          /\ orch' = orch /\ chk' = chk /\ conns' = conns
          /\ ipc' = ipc /\ up' = up /\ client' = client]_vars

C10_Witness ==
    /\ last.op = "cleanup" /\ last.again
    /\ ipc.updateUsage = 1 /\ ipc.appendConversation = 1
    /\ \E c \in 1..Len(conns) : conns[c].disconnected /\ conns[c].ws = "CLOSING"

\* C11: cleanup() performs the usage flush, the checkpoint flush, the upstream
\* disconnect() and the buffer clear in this order, and calls disconnect() whenever
\* the upstream connection exists, whether its socket is connecting or open.
C11_CleanupDisconnects ==
    [][last'.op = "cleanup" =>
          /\ Before(last'.tr, "usage.flush", "checkpoint.flush")
          /\ Before(last'.tr, "checkpoint.flush", "buffer.clear")
          /\ (orch.voiceConnection # 0 /\ conns[orch.voiceConnection].ws \in {"CONNECTING", "OPEN"})
                => /\ Before(last'.tr, "checkpoint.flush", "disconnect")
                   /\ Before(last'.tr, "disconnect", "buffer.clear")
                   /\ conns'[orch.voiceConnection].disconnected]_vars

\* C12: onError() leaves the connected status of the Orchestrator as it was and
\* sets skipSessionSave to false.
C12_OnErrorKeepsConnected ==
    [][(last'.op = "ws.error" /\ last'.cb) =>
          /\ orch'.isVoiceProviderConnected = orch.isVoiceProviderConnected
          /\ orch'.skipSessionSave = FALSE]_vars

\* C13: when the forward of an upstream frame to a closed client stream fails in
\* onMsgReceived, cleanup() is invoked and the frame gets no usage ingestion, no
\* session save and no checkpoint ingestion.
C13_ClientSendFailureCleansUp ==
    [][(last'.op = "ws.message" /\ last'.cb /\ client.closed) =>
          /\ Count(last'.tr, "usage.flush") = 1 /\ Count(last'.tr, "buffer.clear") = 1
          /\ conns'[last'.conn].disconnected
          /\ Count(last'.tr, "usage") = 0
          /\ ipc'.saveSession = ipc.saveSession
          /\ chk' = chk]_vars

\* The payloads written to upstream connection c, in order.
WritesOn(c) == SelectSeq(up, LAMBDA e : e.conn = c)

\* C14 as stated: on every connection that reaches Connected, non-empty sessionData
\* is written upstream, and before any client message written on that connection.
C14_Original ==
    orch.sessionData # "" =>
        /\ \A c \in 1..Len(conns) :
               WritesOn(c) # <<>> => WritesOn(c)[1].data = SessionPayload
        /\ (last.op = "ws.open" /\ last.cb) => WritesOn(last.conn) # <<>>

\* C14 amended: the same for sessionData that is non-empty and parses as JSON;
\* sessionData that does not parse is not sent on any connection.
C14_SessionReplayedFirst ==
    /\ orch.sessionData = SessionJson =>
        /\ \A c \in 1..Len(conns) :
               WritesOn(c) # <<>> => WritesOn(c)[1].data = SessionPayload
        /\ (last.op = "ws.open" /\ last.cb) => WritesOn(last.conn) # <<>>
    /\ orch.sessionData = SessionBroken =>
        \A i \in 1..Len(up) : up[i].data # SessionPayload

C14_Witness ==
    /\ orch.sessionData = SessionJson
    /\ Len(conns) = 2
    /\ \A c \in {1, 2} :
           /\ Len(WritesOn(c)) = 2
           /\ WritesOn(c)[1].data = SessionPayload
           /\ WritesOn(c)[2].data = Stringify(ClientEvent(c))
    /\ last.op = "ws.open" /\ last.conn = 2

\* C15: at most one GET_CREDITS is outstanding, and one is launched only when no
\* check is in progress and responseCount has reached MAX_RESPONSES_BEFORE_CREDIT_CHECK;
\* otherwise checkAndScheduleCreditsCheck() changes nothing.
C15_OneCreditsCheck ==
    /\ [](ipc.getCreditsPending <= 1 /\ (orch.creditsCheckInProgress <=> ipc.getCreditsPending = 1))
    /\ [][last'.op = "send" =>
             IF orch.creditsCheckInProgress \/ orch.responseCount < MAX_RESPONSES_BEFORE_CREDIT_CHECK
             THEN /\ ipc'.getCredits = ipc.getCredits
                  /\ orch'.creditsCheckInProgress = orch.creditsCheckInProgress
                  /\ orch'.responseCount = orch.responseCount
             ELSE /\ ipc'.getCredits = ipc.getCredits + 1
                  /\ orch'.creditsCheckInProgress]_vars
    /\ [][ipc'.getCredits # ipc.getCredits => last'.op = "send"]_vars

C15_Witness ==
    /\ last.op = "send" /\ last.again
    /\ orch.creditsCheckInProgress
    /\ orch.responseCount > MAX_RESPONSES_BEFORE_CREDIT_CHECK
    /\ ipc.getCredits = 1 /\ ipc.getCreditsPending = 1

\* C16: when send() raises the buffer-overflow error, the accept layer closes the
\* client stream and cleanup() runs, so no further client frame is accepted.
C16_OverflowClosesClient ==
    [][(last'.op = "send" /\ last'.err = BUFFER_OVERFLOW) =>
          /\ client'.closed
          /\ Count(last'.tr, "buffer.clear") = 1
          /\ orch'.messageBuffer = <<>>]_vars

\* The pending table holds the record of request n.
IsPending(n) ==
    /\ zmq.requests[n].id \in DOMAIN zmq.pendingRequests
    /\ zmq.pendingRequests[zmq.requests[n].id] = n

\* C17: a request whose timer fires before any response has settled it is removed
\* from the pending table and its caller fails with INTERNAL_ZMQ_REQUEST_TIMEOUT;
\* a timer is armed only for a request that is still pending in the table.
C17_TimeoutRemovesAndFails ==
    /\ [](\A n \in 1..Len(zmq.requests) :
              zmq.requests[n].timer = "armed" => (zmq.requests[n].promise = "pending" /\ IsPending(n)))
    /\ [][last'.op = "zmq.timeout" =>
             LET n == last'.conn
             IN  /\ zmq.requests[n].promise = "pending"
                 /\ zmq.requests[n].id \notin DOMAIN zmq'.pendingRequests
                 /\ zmq'.requests[n].promise = "rejected"
                 /\ zmq'.requests[n].error = INTERNAL_ZMQ_REQUEST_TIMEOUT]_vars

C17_Witness ==
    /\ last.op = "zmq.timeout" /\ last.conn = 1
    /\ Len(zmq.requests) = 2
    /\ zmq.requests[1].error = INTERNAL_ZMQ_REQUEST_TIMEOUT
    /\ DOMAIN zmq.pendingRequests = {2}

\* C18: destroy() rejects every pending request with INTERNAL_ZMQ_DESTROYED, cancels
\* its timer and empties the pending table; no timer of a request rejected by
\* destroy() fires afterwards.
C18_DestroyRejectsAll ==
    /\ [][last'.op = "zmq.destroy" =>
             /\ DOMAIN zmq'.pendingRequests = {}
             /\ \A n \in 1..Len(zmq.requests) :
                    IsPending(n) => /\ zmq'.requests[n].promise = "rejected"
                                    /\ zmq'.requests[n].error = INTERNAL_ZMQ_DESTROYED
                                    /\ zmq'.requests[n].timer = "cleared"]_vars
    /\ [][last'.op = "zmq.timeout" =>
             zmq.requests[last'.conn].error # INTERNAL_ZMQ_DESTROYED]_vars

C18_Witness ==
    /\ last.op = "zmq.destroy"
    /\ Len(zmq.requests) = 2
    /\ \A n \in {1, 2} : /\ zmq.requests[n].error = INTERNAL_ZMQ_DESTROYED
                         /\ zmq.requests[n].timer = "cleared"
    /\ DOMAIN zmq.pendingRequests = {}

\* C19: a response settles only the request whose correlation id it carries: every
\* resolved request holds a response with its own id, and a received frame changes
\* no request other than the one with the frame's leading id.
C19_ResponseToItsCaller ==
    /\ [](\A n \in 1..Len(zmq.requests) :
              zmq.requests[n].promise = "resolved" => zmq.requests[n].value.id = zmq.requests[n].id)
    /\ [][last'.op = "zmq.receive" =>
             \A n \in 1..Len(zmq.requests) :
                 zmq'.requests[n] # zmq.requests[n] => zmq.requests[n].id = last'.frame[1]]_vars

C19_Witness ==
    /\ last.op = "zmq.receive" /\ last.again /\ zmq.received = 2
    /\ last.frame[1] = 1
    /\ Len(zmq.requests) = 2
    /\ \A n \in {1, 2} : zmq.requests[n].promise = "resolved" /\ zmq.requests[n].value.id = n

\* C20 as stated: a received frame whose leading id matches a pending record has
\* that record removed from the table and its timer cancelled.
C20_Original ==
    [][(/\ last'.op = "zmq.receive" /\ Len(last'.frame) >= 2
        /\ last'.frame[1] \in DOMAIN zmq.pendingRequests) =>
          /\ last'.frame[1] \notin DOMAIN zmq'.pendingRequests
          /\ zmq'.requests[zmq.pendingRequests[last'.frame[1]]].timer = "cleared"]_vars

\* C20 amended: the same for a frame that also decodes against the response schema
\* of the record's type; a frame that does not decode leaves the record in the
\* table, its timer armed and its caller waiting.
C20_MatchRemovesRecord ==
    [][(/\ last'.op = "zmq.receive" /\ Len(last'.frame) >= 2
        /\ last'.frame[1] \in DOMAIN zmq.pendingRequests) =>
          LET n == zmq.pendingRequests[last'.frame[1]]
          IN  IF DecodeResponse(last'.frame, zmq.requests[n].type).ok
              THEN /\ last'.frame[1] \notin DOMAIN zmq'.pendingRequests
                   /\ zmq'.requests[n].timer = "cleared"
                   /\ zmq'.requests[n].promise = "resolved"
              ELSE /\ zmq'.pendingRequests = zmq.pendingRequests
                   /\ zmq'.requests = zmq.requests]_vars

C20_Witness ==
    /\ last.op = "zmq.receive" /\ Len(last.frame) = 5
    /\ last.frame[1] = 2
    /\ Len(zmq.requests) = 2
    /\ zmq.requests[2].type = VALIDATE_AND_LOAD
    /\ zmq.requests[2].promise = "resolved" /\ zmq.requests[2].timer = "cleared"
    /\ DOMAIN zmq.pendingRequests = {1}

\* C21: a fire-and-forget send adds no record to the pending-request table and
\* raises nothing into its caller; not connected, the message is dropped and
\* logged, and a failed dealer.send() is logged and changes nothing else.
C21_FireAndForgetNeverFails ==
    [][/\ last'.op = "zmq.fireAndForget" =>
            /\ zmq'.pendingRequests = zmq.pendingRequests
            /\ zmq'.requests = zmq.requests
            /\ last'.err = NoError
            /\ LET m == zmq'.fireAndForget[last'.conn]
               IN  IF zmq.connected THEN m.state = "sending" /\ ~m.logged
                   ELSE m.state = "dropped" /\ m.logged
       /\ last'.op = "zmq.fireAndForget.sendError" =>
            /\ zmq'.pendingRequests = zmq.pendingRequests
            /\ zmq'.requests = zmq.requests
            /\ last'.err = NoError
            /\ zmq'.fireAndForget[last'.conn].logged]_vars

C21_Witness ==
    /\ last.op = "zmq.fireAndForget.sendError"
    /\ DOMAIN zmq.pendingRequests # {}
    /\ \E k \in 1..Len(zmq.fireAndForget) : zmq.fireAndForget[k].state = "dropped"
    /\ zmq.fireAndForget[last.conn].state = "failed"

\* The number of delimiters in raw, and the text after its n-th delimiter.
Delimiters(raw) == Cardinality({i \in 1..Len(raw) : raw[i] = ZMQ_DELIMITER})

TextAfter(raw, n) ==
    LET i == CHOOSE j \in 1..Len(raw) :
                 raw[j] = ZMQ_DELIMITER /\ Delimiters(SubSeq(raw, 1, j)) = n
    IN  SubSeq(raw, i + 1, Len(raw))

\* The message type a request frame names: the text between its first two delimiters.
RequestTypeOf(raw) ==
    LET rest == TextAfter(raw, 1)
    IN  IF Delimiters(rest) = 0 THEN rest
        ELSE SubSeq(rest, 1, (CHOOSE j \in 1..Len(rest) :
                                 rest[j] = ZMQ_DELIMITER /\ Delimiters(SubSeq(rest, 1, j)) = 1) - 1)

\* C22: a request frame with fewer argument fields than the request schema of the
\* type it names, and a response frame with fewer fields than the response schema
\* of the type it is decoded for, are not decoded.
C22_FewerFieldsRejected ==
    /\ (/\ codec.op = "decodeRequest"
        /\ \/ Delimiters(codec.raw) = 0
           \/ /\ HasSchema(ZMQ_REQUEST_SCHEMA(RequestTypeOf(codec.raw)))
              /\ Delimiters(codec.raw) - 1 < Len(ZMQ_REQUEST_SCHEMA(RequestTypeOf(codec.raw))))
          => ~codec.result.ok
    /\ (/\ codec.op = "decodeResponse"
        /\ Delimiters(codec.raw) - 1 < Len(ZMQ_RESPONSE_SCHEMA(codec.type)))
          => ~codec.result.ok

C22_Witness ==
    /\ codec.op = "decodeRequest"
    /\ codec.raw = <<"a", ZMQ_DELIMITER, "GET_CREDITS">>
    /\ ~codec.result.ok

\* C23: a request frame whose final field contains the delimiter is decoded, and
\* the decoded final field is all the text after the preceding fields.
C23_TailRecombined ==
    (/\ codec.op = "decodeRequest"
     /\ Delimiters(codec.raw) >= 2
     /\ HasSchema(ZMQ_REQUEST_SCHEMA(RequestTypeOf(codec.raw)))
     /\ Delimiters(codec.raw) - 1 > Len(ZMQ_REQUEST_SCHEMA(RequestTypeOf(codec.raw))))
       => LET n == Len(ZMQ_REQUEST_SCHEMA(RequestTypeOf(codec.raw)))
          IN  /\ codec.result.ok
              /\ codec.result.args[n] = TextAfter(codec.raw, n + 1)

\* The sum of total_tokens over the usage rows of account a in the table usage.
RECURSIVE UsageTotal(_, _)
UsageTotal(usage, a) ==
    IF usage = << >> THEN 0
    ELSE (IF usage[1].account_id = a THEN usage[1].total_tokens ELSE 0) + UsageTotal(Tail(usage), a)

Credits(accounts, a) == accounts[a].topup_remaining + accounts[a].token_remaining

\* C24: the change of topup_remaining plus the change of token_remaining of the
\* account equals minus the sum of inputTokens + outputTokens over the insertUsage
\* calls on it that succeeded.
C24_CreditConservation ==
    Credits(db.accounts, AccountId) - Credits(db.initial, AccountId) = 0 - db.spent[AccountId]

C24_Witness ==
    /\ last.op = "insertUsage.commit"
    /\ db.spent[AccountId] > MaxTokens
    /\ db.accounts[AccountId].topup_remaining < db.initial[AccountId].topup_remaining
    /\ db.accounts[AccountId].token_remaining < db.initial[AccountId].token_remaining

Max(a, b) == IF a >= b THEN a ELSE b

\* C25: an insertUsage with total t that commits on balances (topup, token) with
\* topup >= 0 leaves topup_remaining = max(0, topup - t) and token_remaining =
\* token - max(0, t - topup); topup_remaining stays non-negative and
\* token_remaining is reduced only when topup_remaining ends at 0.
C25_TopupDrainedFirst ==
    [][(last'.op = "insertUsage.commit" /\ db.accounts[db.trx.accountId].topup_remaining >= 0) =>
          LET a == db.trx.accountId
              t == db.trx.inputTokens + db.trx.outputTokens
              topup == db.accounts[a].topup_remaining
              token == db.accounts[a].token_remaining
          IN  /\ db'.accounts[a].topup_remaining = Max(0, topup - t)
              /\ db'.accounts[a].token_remaining = token - Max(0, t - topup)
              /\ db'.accounts[a].topup_remaining >= 0
              /\ db'.accounts[a].token_remaining < token => db'.accounts[a].topup_remaining = 0]_vars

C25_Witness ==
    /\ last.op = "insertUsage.commit"
    /\ db.initial[AccountId].topup_remaining = 1
    /\ db.accounts[AccountId].topup_remaining = 0
    /\ db.accounts[AccountId].token_remaining = db.initial[AccountId].token_remaining - 2
    /\ db.spent[AccountId] = 3

\* C26: a concurrent reader never sees the usage row of an insertUsage without its
\* balance update, nor the update without the row; and an insertUsage that fails at
\* any step, a missing account included, leaves the committed tables as they were
\* when it began.
C26_UsageAtomic ==
    /\ [](Credits(db.observed.accounts, AccountId) + UsageTotal(db.observed.usage_metrics, AccountId)
            = Credits(db.initial, AccountId))
    /\ [][last'.op = "insertUsage.failed" =>
            Tables(db') = (IF db.trx.open THEN db.trx.before ELSE Tables(db))]_vars

C26_Witness ==
    /\ last.op = "insertUsage.failed"
    /\ db.result.value = "SQLITE_ERROR"
    /\ Len(db.usage_metrics) = 1
    /\ db.calls = 2
    /\ db.observed = Tables(db)

\* Whether an api_keys row with the hash of apiKey exists and is unexpired at now.
ActiveKey(apiKey, now) ==
    \E h \in DOMAIN db.api_keys :
        h = HashKey(apiKey) /\ (db.api_keys[h].expires_at = NoExpiry \/ db.api_keys[h].expires_at[1] > now)

\* C27: a validateAndLoad whose query returned answers INVALID_AUTH exactly when no
\* active key has the hash of the presented key; otherwise NO_CREDITS exactly when
\* token_remaining + topup_remaining <= 0; otherwise error "" with the sum as credits.
C27_SessionAssembly ==
    (db.result.op = "validateAndLoad" /\ ~db.result.value.thrown) =>
        LET v == db.result.value
            r == v.returned
            total == Credits(db.accounts, AccountId)
        IN  /\ r.error = INVALID_AUTH <=> ~ActiveKey(v.apiKey, v.now)
            /\ ActiveKey(v.apiKey, v.now) =>
                  /\ r.error = NO_CREDITS <=> total <= 0
                  /\ total > 0 => r.error = "" /\ r.credits = total

C27_Witness ==
    /\ db.result.op = "validateAndLoad" /\ ~db.result.value.thrown
    /\ db.result.value.returned.error = INVALID_AUTH
    /\ db.result.value.apiKey = "rslive_v1_key"
    /\ db.api_keys # << >>
    /\ db.result.value.now > 0

\* C28: a validateAndLoad whose query returned, with an active key, positive
\* credits and no session row of either kind for the session id, answers error ""
\* and an empty sessionData.
C28_LeftJoin ==
    (/\ db.result.op = "validateAndLoad" /\ ~db.result.value.thrown
     /\ ActiveKey(db.result.value.apiKey, db.result.value.now)
     /\ Credits(db.accounts, AccountId) > 0
     /\ \A r \in db.sessions : r.session_id # db.result.value.sessionId)
        => /\ db.result.value.returned.error = ""
           /\ db.result.value.returned.sessionData = << >>
           /\ db.result.value.returned.accountId = AccountId

C28_Witness ==
    /\ db.result.op = "validateAndLoad" /\ ~db.result.value.thrown
    /\ db.result.value.sessionId = "s2"
    /\ db.sessions # {}
    /\ db.result.value.returned.error = ""
    /\ db.result.value.returned.credits > 0
    /\ db.result.value.returned.sessionData = << >>

Statuses(results) == {results[i].status : i \in DOMAIN results}

Served(socket) == socket.orchestrator # << >> \/ socket.conns # << >>

\* C30: a client connection has an Orchestrator (and an upstream connection)
\* only when VALIDATE_AND_LOAD for it has returned with an empty error; a
\* request with a missing parameter is answered 400, one whose
\* VALIDATE_AND_LOAD failed 503, one with error NO_CREDITS 402 and one with
\* any other error 403 (unless the client aborted first), and none of them
\* ever has an Orchestrator or an upstream connection.
C30_OrchestratorOnlyAfterAuth ==
    \A n \in 1..Len(server.sockets) :
        LET socket == server.sockets[n]
            missing == socket.apiKey = "" \/ socket.sessionId = ""
            auth == socket.authResult
        IN  /\ Served(socket) =>
                /\ ~missing
                /\ auth.settled = "resolved" /\ auth.error = ""
                /\ socket.status = ""
            /\ (socket.pc = "returned" /\ ~socket.aborted) =>
                /\ missing <=> socket.status = BAD_REQUEST
                /\ auth.settled = "rejected" <=> socket.status = SERVICE_UNAVAILABLE
                /\ (auth.settled = "resolved" /\ auth.error = NO_CREDITS)
                      <=> socket.status = PAYMENT_REQUIRED
                /\ (auth.settled = "resolved" /\ auth.error \notin {"", NO_CREDITS})
                      <=> socket.status = FORBIDDEN
            /\ (missing \/ auth.settled = "rejected" \/ auth.error # "") => ~Served(socket)

C30_Witness ==
    /\ Len(server.sockets) = 2
    /\ server.sockets[1].status = PAYMENT_REQUIRED
    /\ ~Served(server.sockets[1])
    /\ server.sockets[2].authResult.settled = "resolved"
    /\ server.sockets[2].orchestrator # << >>
    /\ Len(server.sockets[2].conns) = 1

\* C31: once cleanup() has returned, no later event (upstream open, message,
\* error or close, completion of a pending GET_CREDITS) forwards anything to
\* the client or to the upstream, issues an IPC message or creates an
\* upstream connection.
C31_TerminatedAfterCleanup ==
    [][(hist.cleanups > 0 /\ last'.op \notin {"cleanup"}) =>
          /\ up' = up
          /\ client'.sent = client.sent
          /\ ipc'.updateUsage = ipc.updateUsage
          /\ ipc'.saveSession = ipc.saveSession
          /\ ipc'.appendConversation = ipc.appendConversation
          /\ ipc'.getCredits = ipc.getCredits
          /\ Len(conns') = Len(conns)]_vars

\* C32: at most one upstream connection holds a handler reference to the
\* Orchestrator, and it is the current one; every connection that connect()
\* has replaced has been disconnect()ed and has its handler nulled.
C32_OneHandlerReference ==
    /\ Cardinality({c \in 1..Len(conns) : conns[c].handler}) <= 1
    /\ \A c \in 1..Len(conns) :
          c # orch.voiceConnection => (conns[c].disconnected /\ ~conns[c].handler)

C32_Witness ==
    /\ Len(conns) = 2 /\ orch.voiceConnection = 2
    /\ conns[1].disconnected /\ ~conns[1].handler
    /\ conns[2].handler /\ conns[2].ws = "OPEN"

\* C33: once cleanup() has returned, the input tokens (and the output tokens)
\* of all UPDATE_USAGE messages issued add up to those of all response.done
\* frames ingested, the frame that depleted the credits included.
C33_UsageReportedOnce ==
    hist.cleanups > 0 =>
        /\ ipc.usageInput = hist.ingestedInput
        /\ ipc.usageOutput = hist.ingestedOutput
        /\ orch.usageResponseCount = 0

C33_Witness ==
    /\ hist.cleanups > 0
    /\ orch.credits <= 0
    /\ hist.ingestedInput = USAGE_BATCH_SIZE + 1 /\ ipc.usageInput = USAGE_BATCH_SIZE + 1
    /\ hist.ingestedOutput = USAGE_BATCH_SIZE + 1 /\ ipc.usageOutput = USAGE_BATCH_SIZE + 1
    /\ ipc.updateUsage = 2

\* C34: with no external top-up, the local credits never exceed the credits
\* at construction less all tokens ingested so far, also after a GET_CREDITS
\* result has been applied.
C34_CreditsWithinBalance ==
    orch.credits <= PlanCredits - (hist.ingestedInput + hist.ingestedOutput)

\* The CONV row of a session, << >> when there is none.
ConvData(sessionId) ==
    LET rows == {r \in db.sessions : r.account_id = AccountId /\ r.session_id = sessionId /\ r.type = "CONV"}
    IN  IF rows = {} THEN << >> ELSE (CHOOSE r \in rows : TRUE).data

\* C35: once overwriteConversation has written a summary, every text appended
\* to the session while that summarization was in progress is still in the
\* session's CONV row.
C35_AppendsSurviveSummary ==
    (last.op = "overwriteConversation" /\ db.summarized # << >>) =>
        \A k \in 1..Len(db.summarized[1].appended) :
            \E j \in 1..Len(ConvData(db.summarized[1].sessionId)) :
                ConvData(db.summarized[1].sessionId)[j] = db.summarized[1].appended[k]

Settled(n) == n \in 1..Len(zmq.requests) /\ zmq.requests[n].promise # "pending"

\* C36: every request/response send is settled exactly once and is not left
\* pending forever: a pending request is eventually settled, a settled request
\* keeps its outcome, its pending record is gone and its timer is not armed.
C36_SettledOnce ==
    /\ [](\A n \in 1..Len(zmq.requests) :
              Settled(n) => (~IsPending(n) /\ zmq.requests[n].timer # "armed"))
    /\ [][\A n \in 1..Len(zmq.requests) :
              Settled(n) => /\ zmq'.requests[n].promise = zmq.requests[n].promise
                            /\ zmq'.requests[n].value = zmq.requests[n].value
                            /\ zmq'.requests[n].error = zmq.requests[n].error
                            /\ zmq'.requests[n].timer = zmq.requests[n].timer]_vars
    /\ \A n \in 1..MaxTimedRequests :
           (n \in 1..Len(zmq.requests) /\ ~Settled(n)) ~> Settled(n)

\* A request that decodable responses never reached is settled by its timer.
C36_Witness ==
    /\ Len(zmq.requests) = 1 /\ zmq.received = MaxZmqFrames
    /\ zmq.requests[1].promise = "rejected" /\ zmq.requests[1].timer = "fired"
    /\ zmq.requests[1].error = INTERNAL_ZMQ_REQUEST_TIMEOUT
    /\ ~zmq.requests[1].sending
    /\ DOMAIN zmq.pendingRequests = {}

\* C37: a send() that returns without raising has enqueued the message in the
\* buffer or written it to an open upstream socket; it has not dropped it.
C37_AcceptedNotDiscarded ==
    [][(last'.op = "send" /\ last'.err = NoError) =>
          /\ Count(last'.tr, "upstream.drop") = 0
          /\ \/ Len(orch'.messageBuffer) = Len(orch.messageBuffer) + 1
             \/ Len(up') = Len(up) + 1]_vars

\* C39: in a session constructed with empty sessionData, every session.updated
\* frame the Orchestrator receives from the upstream issues exactly one
\* SAVE_SESSION, whatever errors, closes and reconnects came before.
C39_EverySessionUpdateSaved ==
    [][(/\ orch.sessionData = ""
        /\ last'.op = "ws.message" /\ last'.cb /\ ~client.closed
        /\ StartsWithType(last'.frame, T_SESSION_UPDATED)) =>
          ipc'.saveSession = ipc.saveSession + 1]_vars

\* A fragment that opens with a speaker tag and no newline before it.
BareTagged == {type \o ":" \o DeltaOf(f) : type \in {"user", "agent"}, f \in OrchFrames}

\* C40: in the concatenation of the APPEND_CONVERSATION payloads in send order,
\* every speaker tag other than the very first is preceded by a newline.
C40_TagsOnNewLines ==
    \A k \in 2..Len(ipc.fragments) : ipc.fragments[k] \notin BareTagged

\* C38: every GET_CREDITS the Orchestrator launches is eventually settled (by a
\* response, the IPC timeout, a send failure or destroy) and the in-progress
\* flag is then cleared: the flag is set exactly while a request is pending,
\* and a set flag is eventually cleared.
C38_CreditsCheckCompletes ==
    /\ [](orch.creditsCheckInProgress <=>
              \E n \in 1..Len(zmq.requests) : zmq.requests[n].promise = "pending")
    /\ orch.creditsCheckInProgress ~> ~orch.creditsCheckInProgress

C38_Witness ==
    /\ last.op = "zmq.timeout" /\ last.conn = 1
    /\ zmq.requests[1].type = GET_CREDITS
    /\ zmq.requests[1].error = INTERNAL_ZMQ_REQUEST_TIMEOUT
    /\ ipc.getCredits = 1 /\ ipc.getCreditsPending = 0
    /\ ~orch.creditsCheckInProgress
    /\ orch.responseCount >= MAX_RESPONSES_BEFORE_CREDIT_CHECK
====
